---- MODULE Spec2Model ----
(***************************************************************************)
(* Model of the distributed coordination subsystem of trsvcscore:          *)
(*   - the fail-over RPC proxies (proxy/zookeeper.py, proxy/basic.py),     *)
(*   - the service registrar with deferred registration (registrar/zoo.py),*)
(*   - the consistent service hashring (hashring/zookeeper.py),             *)
(*   - the registrar of the service handlers (registrar/zookeeper.py).      *)
(* Every thread of the program is a process with a program counter; one    *)
(* action models one statement (or one lock-protected group of statements) *)
(* of the source.                                                          *)
(***************************************************************************)
EXTENDS Integers, Sequences, FiniteSets, TLC

\* ------------------------------------------------------------------ bounds
NumNodes == 2
MaxBindings == 2
MaxStreak == 2
NumServices == 2
MaxQueue == 2
MaxEvents == 2
NumTokens == 4
MaxObservers == 2
MaxSequence == 3

\* Python's None, for node names and for client / transport objects.
None == 0

\* Registry nodes: NumNodes instances on this host, and one on another host.
Nodes == 1..NumNodes
RemoteNode == NumNodes + 1
AllNodes == Nodes \cup {RemoteNode}
Bindings == 1..MaxBindings
\* The threads that share one proxy object: two concurrent callers.
Users == {"u1", "u2"}
\* The Service objects handed to the registrar.
Services == 1..NumServices

VARIABLES
    \* ---- the registry /services/<name>/registry as the proxy sees it
    registry,                 \* the children present (registered instances)
    \* ---- ServiceProxy fields
    proxy_class,              \* "zookeeper" | "basic"
    keepalive,
    service,                  \* active client object (a binding) or None
    service_node,
    service_transport,
    staged_service,
    staged_service_node,
    staged_service_transport,
    lock,                     \* "free" | "user" | "watch"
    \* ---- client / transport objects created by _create_service
    next_id,                  \* number of objects created so far, plus one
    node_of,                  \* binding -> node its endpoint belongs to
    tstate,                   \* transport -> "closed" | "open" | "broken"
    \* ---- the ChildrenWatch thread running _watch
    watch_pending,
    wpc,
    w_result,
    \* ---- user threads calling proxy.<method>(...)
    pc,
    method,                   \* the client whose bound method the wrapper holds
    result,                   \* outcome of the user's current / last call
    \* ---- observation of the calls (history)
    resolved,                 \* did the most recent _create_service find one
    unresolvable,             \* per call: no instance resolvable since it began
    solo,                     \* per call: ran alone, registry and watch quiet
    streak                    \* consecutive solo calls that raised

proxy_vars == <<registry, proxy_class, keepalive, service, service_node,
                service_transport, staged_service, staged_service_node,
                staged_service_transport, lock, next_id, node_of, tstate,
                watch_pending, wpc, w_result, pc, method, result,
                resolved, unresolvable, solo, streak>>

VARIABLES
    \* ---- the coordinator session of the registrar's zookeeper_client
    zk_state,                 \* "connected" | "connecting" | "expired"
    session_events,           \* session events not yet seen by the observer
    znodes,                   \* services whose ephemeral node exists
    \* ---- ZookeeperServiceRegistrar fields
    registration_queue,
    registered_services,
    \* ---- the thread calling register_service / unregister_service
    rpc,
    r_service,                \* the `service` argument
    r_node,                   \* what create_path did: "none"|"created"|"exists"
    r_result,                 \* "none" while running, then what was returned
    \* ---- the client's thread running _session_observer
    opc,
    o_service,
    o_iter,                   \* registered services the expiry loop has yet to visit
    o_size,                   \* size of registered_services when the loop began
    o_began,                  \* registered when the loop began and ever since
    \* ---- observation of the registrations (history)
    deferred,                 \* deferred by register_service, not registered yet
    owed,                     \* registered when the session expired, not again yet
    cancelled                 \* unregister_service returned with the observer
                              \* at rest, register_service not called since

registrar_vars == <<zk_state, session_events, znodes, registration_queue,
                    registered_services, rpc, r_service, r_node, r_result,
                    opc, o_service, o_iter, o_size, o_began, deferred, owed,
                    cancelled>>

VARIABLES
    \* ---- the coordinator and the HashringWatch of the hashring
    h_state,                  \* session: "connected", "connecting", "expired"
    h_children,               \* tokens of the position nodes under the path
    h_ring,                   \* hashring_watch.hashring(): HashringNode's
    \* ---- ZookeeperServiceHashring
    observers,                \* self.observers
    \* ---- the callback the watch is running (_watch_observer or
    \* ---- _session_observer)
    cb_pc,                    \* "idle", "watch_observer", "session_observer",
                              \* "dispatch"
    cb_args,                  \* arguments the watch passed to the callback
    cb_event,                 \* the event handed to the observers
    cb_i,                     \* position of the for loop in self.observers
    cb_invoked,               \* the observer calls made by this callback
    cb_outcome,               \* how the last callback ended
    \* ---- the last call of the public interface and what it gave
    h_call,
    h_result,
    \* ---- observation of the session (history)
    h_before,                 \* tokens of the ring when the session was lost
    h_expired                 \* the session expired since h_before was taken

hashring_vars == <<h_state, h_children, h_ring, observers, cb_pc, cb_args,
                   cb_event, cb_i, cb_invoked, cb_outcome, h_call, h_result,
                   h_before, h_expired>>

VARIABLES
    \* ---- the coordinator seen by the registrar of registrar/zookeeper.py
    sr_connected,             \* zookeeper_client.connected
    sr_children,              \* nodes under /services/<name>/registry
    sr_sequence,              \* next sequence number of the registry node
    \* ---- ZookeeperServiceRegistrar (registrar/zookeeper.py)
    sr_queue,                 \* self.registration_queue
    registered_service_node,  \* service of self.registered_service_node
    \* ---- observation (history)
    sr_registered,            \* services register_service returned True for
    sr_unregistered,          \* service unregister_service was last called for
    sr_restored               \* whether it was registered again since

service_registrar_vars == <<sr_connected, sr_children, sr_sequence, sr_queue,
                            registered_service_node, sr_registered,
                            sr_unregistered, sr_restored>>

\* A caller of locate_service (registrar/zoo.py) and the registry it reads
VARIABLES
    l_connected,              \* the caller's client is connected
    l_registry,               \* services with a registration node
    lpc,                      \* position of the caller in locate_service
    l_affinity,               \* host_affinity of the call
    l_children,               \* children listed and not yet read
    l_services,               \* `services`: the ServiceInfo read so far
    l_result,                 \* `result`
    l_raised,                 \* an exception was caught and logged
    l_seen                    \* registrations that existed at the call

locate_vars == <<l_connected, l_registry, lpc, l_affinity, l_children,
                 l_services, l_result, l_raised, l_seen>>

\* A ServiceInfo or ServiceRegistration taken through to_json and from_json
VARIABLES
    ser_pc,                   \* "unused", "object", "dict", "string" or "done"
    ser_x,                    \* the object
    ser_data,                 \* what to_json (and json.dumps) made of it
    ser_back                  \* what from_json gave for ser_data

serialization_vars == <<ser_pc, ser_x, ser_data, ser_back>>

\* The rows of a job table and the DatabaseJob objects made for them
VARIABLES
    job_rows,                 \* row id -> [owner, start, end, successful]
    job_objects               \* object -> [state, owner, model_id, model, exc]

database_job_vars == <<job_rows, job_objects>>

\* A DatabaseJobQueue and the consumers of its get()
VARIABLES
    q_running,                \* self.running
    q_queue,                  \* self.queue: "job" and "STOP" items
    c_blocked,                \* consumers blocked in self.queue.get
    q_stop_done,              \* stop() took effect and start() did not follow
    q_outcome,                \* what the last get() to end gave
    q_while_running,          \* self.running when that get() was called
    q_threads                 \* the threads start() made, each "unstarted",
                              \* "loop", "poll", "closing" or "exited"

job_queue_vars == <<q_running, q_queue, c_blocked, q_stop_done, q_outcome,
                    q_while_running, q_threads>>

\* A Riak session bucket and the callers of RiakSessionStore.create
VARIABLES
    ss_bucket,                \* session key -> the stored object
    ss_callers                \* caller -> [pc, key, user_id, exists, outcome]

session_store_vars == <<ss_bucket, ss_callers>>

\* A ThriftServer (service/server/default.py), its run thread and the daemon
\* thread of _run_server
VARIABLES
    ts_running,               \* self.running
    ts_status,                \* self._status
    ts_errors,                \* errors, the local of _run_server
    ts_run_pc,                \* self.thread: "unstarted", "spawn", "alive",
                              \* "wait", "final", "exited"
    ts_serve_pc,              \* the daemon thread: "unstarted", "loop",
                              \* "serving", "exited"
    ts_stop_pc,               \* the caller of stop(): "idle", "clear"
    ts_raised,                \* what the last start() raised
    ts_dead                   \* the serve loop failed ERROR_LIMIT times
                              \* (history)

thrift_server_vars == <<ts_running, ts_status, ts_errors, ts_run_pc,
                        ts_serve_pc, ts_stop_pc, ts_raised, ts_dead>>

library_vars == <<locate_vars, serialization_vars, database_job_vars,
                  job_queue_vars, session_store_vars, thrift_server_vars>>

vars == <<proxy_vars, registrar_vars, hashring_vars, service_registrar_vars,
          library_vars>>

\* ServiceInfo.hostname of the instance registered under node n, compared
\* with socket.gethostname() of the proxy's process.
hostname_of(n) == IF n = RemoteNode THEN "remote" ELSE "local"

ActiveSlot == <<service, service_node, service_transport>>
StagedSlot == <<staged_service, staged_service_node, staged_service_transport>>

\* ------------------------------------------------------ service resolution

\* registrar/zookeeper.py: the registrations whose hostname is this host.
host_services(reg) == {n \in reg : hostname_of(n) = "local"}

\* registrar/zookeeper.py locate_zookeeper_service(name, host_affinity=True):
\* the set of node paths it may return.  `result` starts as (None, None), so
\* the fall-back guarded by `result is None` never runs: without a
\* registration on this host nothing is returned.
locate_zookeeper_service(reg) ==
    IF host_services(reg) = {} THEN {None} ELSE host_services(reg)

\* proxy/zookeeper.py _create_service: the nodes it may bind a new client
\* and transport to (None when nothing was located).  Every registered
\* instance publishes a THRIFT/TCP endpoint, so the loop over the endpoints
\* of a located instance returns at its first hit.
create_service(reg) == locate_zookeeper_service(reg)

isOpen(t) == tstate[t] # "closed"

\* The server of a registered instance accepts connections.
Listening(n) == n \in registry


\* ------------------------------------------------------------ construction

\* ZookeeperServiceProxy.__init__ (proxy/zookeeper.py 86-116) and
\* BasicServiceProxy.__init__ (proxy/basic.py 59-67): the state after the
\* constructor returned, for any registry contents at that moment.  The
\* children watch started on line 116 may or may not deliver a first
\* notification.
ProxyInit ==
    /\ registry \in SUBSET AllNodes
    /\ proxy_class \in {"zookeeper", "basic"}
    /\ keepalive \in BOOLEAN
    /\ \E n \in Nodes \cup {None} :
          /\ IF proxy_class = "zookeeper"
                THEN n \in create_service(registry)
                ELSE n \in Nodes
          /\ service = (IF n = None THEN None ELSE 1)
          /\ service_transport = (IF n = None THEN None ELSE 1)
          /\ service_node = (IF proxy_class = "zookeeper" THEN n ELSE None)
          /\ node_of = [b \in Bindings |-> IF b = 1 THEN n ELSE None]
          /\ next_id = (IF n = None THEN 1 ELSE 2)
          /\ resolved = (n # None)
    /\ staged_service = None
    /\ staged_service_node = None
    /\ staged_service_transport = None
    /\ lock = "free"
    /\ tstate = [b \in Bindings |-> "closed"]
    /\ watch_pending \in (IF proxy_class = "zookeeper" THEN BOOLEAN ELSE {FALSE})
    /\ wpc = "idle"
    /\ w_result = None
    /\ pc = [u \in Users |-> "idle"]
    /\ method = [u \in Users |-> None]
    /\ result = [u \in Users |-> "none"]
    /\ unresolvable = [u \in Users |-> FALSE]
    /\ solo = [u \in Users |-> FALSE]
    /\ streak = 0

slot_vars == <<service, service_node, service_transport, staged_service,
               staged_service_node, staged_service_transport>>
object_vars == <<next_id, node_of>>
watch_vars == <<watch_pending, wpc, w_result>>
config_vars == <<proxy_class, keepalive>>
call_vars == <<pc, method, result>>
history_vars == <<resolved, unresolvable, solo, streak>>

\* ------------------------------------------------- the registry (environment)

\* A service instance starts and registers its ephemeral node; the children
\* watch of a ZookeeperServiceProxy is triggered.
RegisterNode(n) ==
    /\ n \notin registry
    /\ registry' = registry \cup {n}
    /\ watch_pending' = (proxy_class = "zookeeper")
    /\ UNCHANGED <<slot_vars, object_vars, config_vars, lock, tstate, wpc,
                   w_result, call_vars>>

\* A service instance stops (or its session expires): its node vanishes and
\* the connections to its server break.
UnregisterNode(n) ==
    /\ n \in registry
    /\ registry' = registry \ {n}
    /\ tstate' = [t \in Bindings |->
                    IF node_of[t] = n /\ tstate[t] = "open"
                        THEN "broken" ELSE tstate[t]]
    /\ watch_pending' = (proxy_class = "zookeeper")
    /\ UNCHANGED <<slot_vars, object_vars, config_vars, lock, wpc,
                   w_result, call_vars>>

\* ---------------------------------------------------------------- _watch

\* _watch, lines 155-159: read the children and decide whether the bound
\* and the staged instance are both gone.
watch_children ==
    /\ wpc = "idle"
    /\ watch_pending
    /\ watch_pending' = FALSE
    /\ LET services == registry
       IN  wpc' = IF service_node \notin services
                      /\ staged_service_node \notin services
                   THEN "create" ELSE "idle"
    /\ UNCHANGED <<registry, slot_vars, object_vars, config_vars, lock, tstate,
                   w_result, call_vars>>

\* _watch, line 161: node, service, transport = self._create_service()
watch_create ==
    /\ wpc = "create"
    /\ \E n \in create_service(registry) :
          IF n = None
             THEN /\ w_result' = None
                  /\ UNCHANGED object_vars
             ELSE /\ next_id <= MaxBindings
                  /\ w_result' = next_id
                  /\ node_of' = [node_of EXCEPT ![next_id] = n]
                  /\ next_id' = next_id + 1
    /\ wpc' = "lock"
    /\ UNCHANGED <<registry, slot_vars, config_vars, lock, tstate,
                   watch_pending, call_vars>>

\* _watch, line 164: with self.lock
watch_lock ==
    /\ wpc = "lock"
    /\ lock = "free"
    /\ lock' = "watch"
    /\ wpc' = "stage"
    /\ UNCHANGED <<registry, slot_vars, object_vars, config_vars, tstate,
                   watch_pending, w_result, call_vars>>

\* A faulty variant of watch_stage that installs the new client in the
\* active slot directly.
watch_stage_active ==
    /\ wpc = "stage"
    /\ service_node' = (IF w_result = None THEN None ELSE node_of[w_result])
    /\ service' = w_result
    /\ service_transport' = w_result
    /\ lock' = "free"
    /\ wpc' = "idle"
    /\ w_result' = None
    /\ UNCHANGED <<registry, staged_service, staged_service_node,
                   staged_service_transport, object_vars, config_vars, tstate,
                   watch_pending, call_vars>>

\* _watch, lines 165-167, and the release of the lock.
watch_stage ==
    /\ wpc = "stage"
    /\ staged_service_node' = (IF w_result = None THEN None ELSE node_of[w_result])
    /\ staged_service' = w_result
    /\ staged_service_transport' = w_result
    /\ lock' = "free"
    /\ wpc' = "idle"
    /\ w_result' = None
    /\ UNCHANGED <<registry, service, service_node, service_transport,
                   object_vars, config_vars, tstate, watch_pending, call_vars>>

\* ------------------------------------------------------------ user calls

\* The call of user u ends with outcome r: "ok", "ServiceProxyException", or
\* the class of an exception that left the proxy as it was raised
\* ("AttributeError", "Exception").
Return(u, r) ==
    /\ pc' = [pc EXCEPT ![u] = "idle"]
    /\ result' = [result EXCEPT ![u] = r]
    /\ method' = [method EXCEPT ![u] = None]

Goto(u, label) ==
    /\ pc' = [pc EXCEPT ![u] = label]
    /\ UNCHANGED <<method, result>>

\* The exception classes a remote call may raise: the transport's own
\* TTransportException, or any other one (socket.error, TApplicationException).
CallErrors == {"TTransportException", "Exception"}

\* An exception of class e raised inside the wrapper's try block.  zookeeper
\* (lines 211-213): `except Exception` turns it into ServiceProxyException.
\* basic (lines 113-115): only TTransportException is caught and becomes
\* ServiceProxyException; any other class goes through the finally clause
\* and on to the caller.
Raised(u, e) ==
    /\ pc' = [pc EXCEPT ![u] = "wrapper_finally"]
    /\ result' = [result EXCEPT ![u] =
                    IF proxy_class = "zookeeper" \/ e = "TTransportException"
                       THEN "ServiceProxyException" ELSE e]
    /\ UNCHANGED method

\* __getattr__, line 239 (zookeeper) / entry of __getattr__ (basic):
\* the unlocked test `if self.staged_service:`.
getattr_staged(u) ==
    /\ pc[u] = "idle"
    /\ pc' = [pc EXCEPT ![u] =
                IF proxy_class = "zookeeper" /\ staged_service # None
                   THEN "swap_lock" ELSE "check_service"]
    /\ result' = [result EXCEPT ![u] = "none"]
    /\ UNCHANGED <<registry, slot_vars, object_vars, config_vars, lock, tstate,
                   watch_vars, method>>

\* __getattr__, line 240: with self.lock
getattr_lock(u) ==
    /\ pc[u] = "swap_lock"
    /\ lock = "free"
    /\ lock' = "user"
    /\ Goto(u, "swap_service")
    /\ UNCHANGED <<registry, slot_vars, object_vars, config_vars, tstate,
                   watch_vars>>

\* __getattr__, lines 241-242
swap_service(u) ==
    /\ pc[u] = "swap_service"
    /\ service' = staged_service
    /\ staged_service' = None
    /\ Goto(u, "swap_node")
    /\ UNCHANGED <<registry, service_node, service_transport,
                   staged_service_node, staged_service_transport, object_vars,
                   config_vars, lock, tstate, watch_vars>>

\* __getattr__, lines 244-245
swap_node(u) ==
    /\ pc[u] = "swap_node"
    /\ service_node' = staged_service_node
    /\ staged_service_node' = None
    /\ Goto(u, "swap_transport")
    /\ UNCHANGED <<registry, service, service_transport, staged_service,
                   staged_service_transport, object_vars, config_vars, lock,
                   tstate, watch_vars>>

\* __getattr__, lines 247-248, and the release of the lock.
swap_transport(u) ==
    /\ pc[u] = "swap_transport"
    /\ service_transport' = staged_service_transport
    /\ staged_service_transport' = None
    /\ lock' = "free"
    /\ Goto(u, "check_service")
    /\ UNCHANGED <<registry, service, service_node, staged_service,
                   staged_service_node, object_vars, config_vars, tstate,
                   watch_vars>>

\* A faulty variant of getattr_check that goes on without the test.
getattr_check_skipped(u) ==
    /\ pc[u] = "check_service"
    /\ Goto(u, "get_attribute")
    /\ UNCHANGED <<registry, slot_vars, object_vars, config_vars, lock, tstate,
                   watch_vars>>

\* __getattr__, lines 251-252 (zookeeper), 140-141 (basic)
getattr_check(u) ==
    /\ pc[u] = "check_service"
    /\ IF service = None
          THEN Return(u, "ServiceProxyException")
          ELSE Goto(u, "get_attribute")
    /\ UNCHANGED <<registry, slot_vars, object_vars, config_vars, lock, tstate,
                   watch_vars>>

\* __getattr__, lines 255-258: getattr(self.service, attr) and the wrapper
\* made by _get_service_method_wrapper around the bound method.
getattr_attribute(u) ==
    /\ pc[u] = "get_attribute"
    /\ IF service = None
          THEN Return(u, "AttributeError")
          ELSE /\ method' = [method EXCEPT ![u] = service]
               /\ pc' = [pc EXCEPT ![u] = "wrapper_try"]
               /\ UNCHANGED result
    /\ UNCHANGED <<registry, slot_vars, object_vars, config_vars, lock, tstate,
                   watch_vars>>

\* wrapper, line 208 / 110: if not self.service_transport.isOpen()
wrapper_isOpen(u) ==
    /\ pc[u] = "wrapper_try"
    /\ IF service_transport = None
          THEN Raised(u, "AttributeError")
          ELSE Goto(u, IF isOpen(service_transport)
                          THEN "wrapper_call" ELSE "wrapper_open")
    /\ UNCHANGED <<registry, slot_vars, object_vars, config_vars, lock, tstate,
                   watch_vars>>

\* wrapper, line 209 / 111: self.service_transport.open()
wrapper_open(u) ==
    /\ pc[u] = "wrapper_open"
    /\ IF service_transport # None /\ Listening(node_of[service_transport])
          THEN /\ tstate' = [tstate EXCEPT ![service_transport] = "open"]
               /\ Goto(u, "wrapper_call")
          ELSE /\ Raised(u, "TTransportException")
               /\ UNCHANGED tstate
    /\ UNCHANGED <<registry, slot_vars, object_vars, config_vars, lock,
                   watch_vars>>

\* wrapper, line 210 / 112: return method(*args, **kwargs).  The bound method
\* talks over the transport of its own client.  basic, line 114: the handler
\* of TTransportException closes the transport.
wrapper_call(u) ==
    /\ pc[u] = "wrapper_call"
    /\ IF tstate[method[u]] = "open"
          THEN /\ pc' = [pc EXCEPT ![u] = "wrapper_finally"]
               /\ result' = [result EXCEPT ![u] = "ok"]
               /\ UNCHANGED <<method, tstate>>
          ELSE \E e \in CallErrors :
                  /\ Raised(u, e)
                  /\ tstate' = IF proxy_class = "basic" /\ e = "TTransportException"
                                  THEN [tstate EXCEPT ![service_transport] = "closed"]
                                  ELSE tstate
    /\ UNCHANGED <<registry, slot_vars, object_vars, config_vars, lock,
                   watch_vars>>

\* A faulty variant of wrapper_finally that closes the transport only after
\* a call that returned.
wrapper_finally_on_success(u) ==
    /\ pc[u] = "wrapper_finally"
    /\ IF keepalive \/ result[u] # "ok"
          THEN Return(u, result[u])
          ELSE IF service_transport = None
          THEN Return(u, "AttributeError")
          ELSE IF isOpen(service_transport)
          THEN Goto(u, "wrapper_close")
          ELSE Return(u, result[u])
    /\ UNCHANGED <<registry, slot_vars, object_vars, config_vars, lock, tstate,
                   watch_vars>>

\* wrapper, line 215 / 117:
\* if not self.keepalive and self.service_transport.isOpen()
wrapper_finally(u) ==
    /\ pc[u] = "wrapper_finally"
    /\ IF keepalive
          THEN Return(u, result[u])
          ELSE IF service_transport = None
          THEN Return(u, "AttributeError")
          ELSE IF isOpen(service_transport)
          THEN Goto(u, "wrapper_close")
          ELSE Return(u, result[u])
    /\ UNCHANGED <<registry, slot_vars, object_vars, config_vars, lock, tstate,
                   watch_vars>>

\* wrapper, line 216 / 118: self.service_transport.close()
wrapper_close(u) ==
    /\ pc[u] = "wrapper_close"
    /\ IF service_transport = None
          THEN /\ Return(u, "AttributeError")
               /\ UNCHANGED tstate
          ELSE /\ tstate' = [tstate EXCEPT ![service_transport] = "closed"]
               /\ Return(u, result[u])
    /\ UNCHANGED <<registry, slot_vars, object_vars, config_vars, lock,
                   watch_vars>>

\* ------------------------------------------------------- the proxy system

\* No call of the public interface of the hashring was made yet.
NoCall == [op |-> "none", data |-> 0, merge_nodes |-> TRUE]
NoResult == [exc |-> "none", value |-> << >>]
NoArgs == [state_name |-> "none", previous_hashring |-> << >>,
           current_hashring |-> << >>, added_nodes |-> << >>,
           removed_nodes |-> << >>]
NoEvent == [event_type |-> "none", previous_hashring |-> << >>,
            current_hashring |-> << >>, added_nodes |-> << >>,
            removed_nodes |-> << >>]

\* The callback, the call and the history of a hashring nobody used yet.
HashringIdle ==
    /\ observers = << >>
    /\ cb_pc = "idle"
    /\ cb_args = NoArgs
    /\ cb_event = NoEvent
    /\ cb_i = 0
    /\ cb_invoked = << >>
    /\ cb_outcome = "none"
    /\ h_call = NoCall
    /\ h_result = NoResult
    /\ h_before = << >>
    /\ h_expired = FALSE

\* The hashring of the process is constructed and left alone (not started).
HashringUnused ==
    /\ h_state = "connected"
    /\ h_children = {}
    /\ h_ring = << >>
    /\ HashringIdle

\* No caller is in locate_service and nothing is registered.
LocateInit ==
    /\ l_connected = TRUE
    /\ l_registry = {}
    /\ lpc = "idle"
    /\ l_affinity = FALSE
    /\ l_children = {}
    /\ l_services = {}
    /\ l_result = None
    /\ l_raised = FALSE
    /\ l_seen = {}

\* No object is being serialized.
SerializationUnused ==
    /\ ser_pc = "unused"
    /\ ser_x = [class |-> "none"]
    /\ ser_data = [class |-> "none"]
    /\ ser_back = [exc |-> "none", value |-> << >>]

NumRows == 2
NumJobObjects == 2
RowIds == 1..NumRows
JobObjects == 1..NumJobObjects

\* A row of the job table as it is inserted: nothing set.
NewRow == [owner |-> "NULL", start |-> "NULL", end |-> "NULL",
           successful |-> "NULL"]

\* The table holds new jobs and no DatabaseJob was constructed.
DatabaseJobInit ==
    /\ job_rows = [id \in RowIds |-> NewRow]
    /\ job_objects = [d \in JobObjects |->
                        [state |-> "none", owner |-> "NULL", model_id |-> None,
                         model |-> NewRow, exc |-> "none"]]

\* The threading.Thread objects start() may create.
MaxPollers == 2
Pollers == 1..MaxPollers

\* DatabaseJobQueue.__init__: an empty queue, not running.
JobQueueInit ==
    /\ q_threads = [t \in Pollers |-> "unstarted"]
    /\ q_running = FALSE
    /\ q_queue = << >>
    /\ c_blocked = 0
    /\ q_stop_done = FALSE
    /\ q_outcome = "none"
    /\ q_while_running = FALSE

NumCreators == 3
Creators == 1..NumCreators
SessionKeys == {"k1", "k2"}

\* The bucket.get calls of one create that are followed.
MaxAttempts == 2

\* SessionStore._create_session_key (session/base.py 111-112): uuid4().hex,
\* some key of the key space.
create_session_key == SessionKeys

\* bucket.get(key) of a key nothing was stored under: exists() is False.
NoSession == [exists |-> FALSE, user_id |-> "none"]

\* RiakSessionStore.__init__: the bucket holds no session.
SessionStoreInit ==
    /\ ss_bucket = [k \in SessionKeys |-> NoSession]
    /\ ss_callers = [c \in Creators |->
                       [pc |-> "idle", key |-> "none", user_id |-> "none",
                        exists |-> FALSE, outcome |-> "none",
                        provided |-> FALSE, attempts |-> 0]]

\* _run_server, line 86: the failures of serve() after which the server
\* is halted.
ERROR_LIMIT == 10

\* ThriftServer.__init__ (service/server/default.py 52-56): not running,
\* status STOPPED, the run thread created and not started.
ThriftServerInit ==
    /\ ts_running = FALSE
    /\ ts_status = "STOPPED"
    /\ ts_errors = 0
    /\ ts_run_pc = "unstarted"
    /\ ts_serve_pc = "unstarted"
    /\ ts_stop_pc = "idle"
    /\ ts_raised = "none"
    /\ ts_dead = FALSE

\* The library classes the process constructed and does not use.
LibraryUnused ==
    LocateInit /\ SerializationUnused /\ DatabaseJobInit /\ JobQueueInit
        /\ SessionStoreInit /\ ThriftServerInit

\* The registrar of the service handlers is constructed and left alone.
ServiceRegistrarInit ==
    /\ sr_connected = TRUE
    /\ sr_children = {}
    /\ sr_sequence = 1
    /\ sr_queue = << >>
    /\ registered_service_node = None
    /\ sr_registered = {}
    /\ sr_unregistered = None
    /\ sr_restored = FALSE

\* The registrar of the process is constructed and left alone.
RegistrarUnused ==
    /\ zk_state = "connected"
    /\ session_events = << >>
    /\ znodes = {}
    /\ registration_queue = << >>
    /\ registered_services = {}
    /\ rpc = "idle"
    /\ r_service = None
    /\ r_node = "none"
    /\ r_result = "none"
    /\ opc = "idle"
    /\ o_service = None
    /\ o_iter = << >>
    /\ o_size = 0
    /\ o_began = {}
    /\ deferred = {}
    /\ owed = {}
    /\ cancelled = {}

ProxyFrame ==
    UNCHANGED <<history_vars, registrar_vars, hashring_vars,
                service_registrar_vars, library_vars>>

\* Two callers share the proxy while the registry changes and the watch
\* runs; the history variables are not recorded.
ProxyNext ==
    \/ \E n \in AllNodes : RegisterNode(n) /\ ProxyFrame
    \/ \E n \in AllNodes : UnregisterNode(n) /\ ProxyFrame
    \/ watch_children /\ ProxyFrame
    \/ watch_create /\ ProxyFrame
    \/ watch_lock /\ ProxyFrame
    \/ watch_stage /\ ProxyFrame
    \/ \E u \in Users : getattr_staged(u) /\ ProxyFrame
    \/ \E u \in Users : getattr_lock(u) /\ ProxyFrame
    \/ \E u \in Users : swap_service(u) /\ ProxyFrame
    \/ \E u \in Users : swap_node(u) /\ ProxyFrame
    \/ \E u \in Users : swap_transport(u) /\ ProxyFrame
    \/ \E u \in Users : getattr_check(u) /\ ProxyFrame
    \/ \E u \in Users : getattr_attribute(u) /\ ProxyFrame
    \/ \E u \in Users : wrapper_isOpen(u) /\ ProxyFrame
    \/ \E u \in Users : wrapper_open(u) /\ ProxyFrame
    \/ \E u \in Users : wrapper_call(u) /\ ProxyFrame
    \/ \E u \in Users : wrapper_finally(u) /\ ProxyFrame
    \/ \E u \in Users : wrapper_close(u) /\ ProxyFrame

\* The process after it constructed a proxy (and a registrar it does not use).
ProxySystemInit ==
    ProxyInit /\ RegistrarUnused /\ HashringUnused /\ ServiceRegistrarInit
        /\ LibraryUnused

SpecProxy == ProxySystemInit /\ [][ProxyNext]_vars

\* --------------------------------------------------- observing the calls

\* The history variables, recorded from the step the program just took.
\*   resolved       the most recent _create_service found an instance
\*   unresolvable   since the call of u began, no instance has been resolvable
\*   solo           the call of u began with the watch at rest and no other
\*                  call in progress, and nothing has disturbed it since
\*   streak         solo calls that raised, in a row, with the registry and
\*                  the watch at rest
HistoryStep ==
    LET began(u) == pc[u] = "idle" /\ pc'[u] # "idle"
        ended(u) == pc[u] # "idle" /\ pc'[u] = "idle"
        disturbed == \/ registry' # registry
                     \/ wpc' # wpc
                     \/ watch_pending' # watch_pending
    IN  /\ resolved' = IF wpc = "create" /\ wpc' = "lock"
                          THEN w_result' # None ELSE resolved
        /\ unresolvable' = [u \in Users |->
              IF began(u) THEN ~resolved
              ELSE IF ended(u) THEN FALSE
              ELSE unresolvable[u] /\ ~resolved']
        /\ solo' = [u \in Users |->
              IF disturbed \/ ended(u) THEN FALSE
              ELSE IF began(u)
                 THEN /\ \A v \in Users \ {u} : pc[v] = "idle"
                      /\ wpc = "idle"
                      /\ ~watch_pending
              ELSE IF \E v \in Users \ {u} : began(v) THEN FALSE
              ELSE solo[u]]
        /\ streak' = IF disturbed THEN 0
                     ELSE IF \E u \in Users : ended(u) /\ result'[u] = "ok" THEN 0
                     ELSE IF \E u \in Users : ended(u) /\ solo[u] /\ streak < MaxStreak
                        THEN streak + 1
                     ELSE streak
        /\ UNCHANGED <<registrar_vars, hashring_vars, service_registrar_vars,
                       library_vars>>

\* One caller uses the proxy while the registry changes and the watch runs,
\* and the history variables record what the caller sees.
FailoverNext ==
    \/ \E n \in AllNodes : RegisterNode(n) /\ HistoryStep
    \/ \E n \in AllNodes : UnregisterNode(n) /\ HistoryStep
    \/ watch_children /\ HistoryStep
    \/ watch_create /\ HistoryStep
    \/ watch_lock /\ HistoryStep
    \/ watch_stage /\ HistoryStep
    \/ getattr_staged("u1") /\ HistoryStep
    \/ getattr_lock("u1") /\ HistoryStep
    \/ swap_service("u1") /\ HistoryStep
    \/ swap_node("u1") /\ HistoryStep
    \/ swap_transport("u1") /\ HistoryStep
    \/ getattr_check("u1") /\ HistoryStep
    \/ getattr_attribute("u1") /\ HistoryStep
    \/ wrapper_isOpen("u1") /\ HistoryStep
    \/ wrapper_open("u1") /\ HistoryStep
    \/ wrapper_call("u1") /\ HistoryStep
    \/ wrapper_finally("u1") /\ HistoryStep
    \/ wrapper_close("u1") /\ HistoryStep

SpecFailover == ProxySystemInit /\ [][FailoverNext]_vars

WrapperLabels == {"wrapper_try", "wrapper_open", "wrapper_call",
                  "wrapper_finally", "wrapper_close"}

\* The step of caller u opens a transport or invokes the remote method.
NetworkStep(u) ==
    /\ pc[u] \in {"wrapper_open", "wrapper_call"}
    /\ pc'[u] # pc[u]

\* ============================================================== registrar

Range(q) == {q[i] : i \in 1..Len(q)}

\* The orders in which iteritems() may visit the keys of a dict.
Enumerations(S) ==
    {q \in [1..Cardinality(S) -> S] : Range(q) = S}

\* zookeeper_client.connected
connected == zk_state = "connected"

\* ZookeeperServiceRegistrar.__init__: empty queue, empty map; the client it
\* is given is connected or still connecting.
RegistrarInit ==
    /\ zk_state \in {"connected", "connecting"}
    /\ session_events = << >>
    /\ znodes = {}
    /\ registration_queue = << >>
    /\ registered_services = {}
    /\ rpc = "idle"
    /\ r_service = None
    /\ r_node = "none"
    /\ r_result = "none"
    /\ opc = "idle"
    /\ o_service = None
    /\ o_iter = << >>
    /\ o_size = 0
    /\ o_began = {}
    /\ deferred = {}
    /\ owed = {}
    /\ cancelled = {}

session_vars == <<zk_state, session_events>>
caller_vars == <<rpc, r_service, r_node, r_result>>
observer_vars == <<opc, o_service, o_iter, o_size, o_began>>
store_vars == <<registration_queue, registered_services>>

\* ------------------------------------------ the coordinator (environment)

\* The connection to the coordinator is lost.
Disconnect ==
    /\ zk_state = "connected"
    /\ zk_state' = "connecting"
    /\ UNCHANGED <<session_events, znodes, store_vars, caller_vars,
                   observer_vars, deferred, owed>>
    /\ UNCHANGED cancelled

\* The coordinator expires the session of the disconnected client and purges
\* its ephemeral nodes.
Expire ==
    /\ zk_state = "connecting"
    /\ zk_state' = "expired"
    /\ znodes' = {}
    /\ owed' = owed \cup (registered_services \cap znodes)
    /\ UNCHANGED <<session_events, store_vars, caller_vars, observer_vars,
                   deferred>>
    /\ UNCHANGED cancelled

\* The client learns that its session expired and starts a new one; the
\* observers are sent EXPIRED_SESSION_STATE.
SessionExpired ==
    /\ zk_state = "expired"
    /\ Len(session_events) < MaxEvents
    /\ zk_state' = "connecting"
    /\ session_events' = Append(session_events, "EXPIRED_SESSION_STATE")
    /\ UNCHANGED <<znodes, store_vars, caller_vars, observer_vars, deferred,
                   owed>>
    /\ UNCHANGED cancelled

\* The client is connected (again); the observers are sent CONNECTED_STATE.
Reconnect ==
    /\ zk_state = "connecting"
    /\ Len(session_events) < MaxEvents
    /\ zk_state' = "connected"
    /\ session_events' = Append(session_events, "CONNECTED_STATE")
    /\ UNCHANGED <<znodes, store_vars, caller_vars, observer_vars, deferred,
                   owed>>
    /\ UNCHANGED cancelled

\* ------------------------------------ register_service / unregister_service

\* register_service(service) is called (line 115).
register_service(s) ==
    /\ rpc = "idle"
    /\ rpc' = "register_check"
    /\ r_service' = s
    /\ r_node' = "none"
    /\ r_result' = "none"
    /\ UNCHANGED <<session_vars, znodes, store_vars, observer_vars, deferred,
                   owed>>
    /\ cancelled' = cancelled \ {s}

\* A faulty variant of register_check that lets the RuntimeError of _register
\* reach the caller of register_service.
register_check_raises ==
    /\ rpc = "register_check"
    /\ IF connected
          THEN /\ rpc' = "register_create"
               /\ UNCHANGED r_result
          ELSE /\ rpc' = "idle"
               /\ r_result' = "RuntimeError"
    /\ UNCHANGED <<session_vars, znodes, store_vars, r_service, r_node,
                   observer_vars, deferred, owed>>
    /\ UNCHANGED cancelled

\* _register, lines 84-85, called on line 117: not connected raises
\* RuntimeError, which the handler on line 120 catches.
register_check ==
    /\ rpc = "register_check"
    /\ rpc' = IF connected THEN "register_create" ELSE "register_defer"
    /\ UNCHANGED <<session_vars, znodes, store_vars, r_service, r_node,
                   r_result, observer_vars, deferred, owed>>
    /\ UNCHANGED cancelled

\* _register, lines 91-95: create_path.  It fails when the connection is
\* gone by now; NodeExistsException (line 99) is not an error, and
\* register_service then returns True (lines 118, 125).
register_create ==
    /\ rpc = "register_create"
    /\ IF ~connected
          THEN /\ rpc' = "register_defer"
               /\ UNCHANGED <<znodes, r_node, r_result, deferred, owed>>
          ELSE IF r_service \in znodes
          THEN /\ rpc' = "idle"
               /\ r_node' = "exists"
               /\ r_result' = "True"
               /\ deferred' = deferred \ {r_service}
               /\ owed' = owed \ {r_service}
               /\ UNCHANGED znodes
          ELSE /\ rpc' = "register_record"
               /\ znodes' = znodes \cup {r_service}
               /\ r_node' = "created"
               /\ deferred' = deferred \ {r_service}
               /\ owed' = owed \ {r_service}
               /\ UNCHANGED r_result
    /\ UNCHANGED <<session_vars, store_vars, r_service, observer_vars>>
    /\ UNCHANGED cancelled

\* _register, line 97, and register_service returns True (lines 118, 125).
register_record ==
    /\ rpc = "register_record"
    /\ registered_services' = registered_services \cup {r_service}
    /\ rpc' = "idle"
    /\ r_result' = "True"
    /\ UNCHANGED <<session_vars, znodes, registration_queue, r_service, r_node,
                   observer_vars, deferred, owed>>
    /\ UNCHANGED cancelled

\* register_service, lines 120-125: the registration is put on the queue and
\* False is returned.
register_defer ==
    /\ rpc = "register_defer"
    /\ Len(registration_queue) < MaxQueue
    /\ registration_queue' = Append(registration_queue, r_service)
    /\ rpc' = "idle"
    /\ r_result' = "False"
    /\ deferred' = deferred \cup {r_service}
    /\ UNCHANGED <<session_vars, znodes, registered_services, r_service,
                   r_node, observer_vars, owed>>
    /\ UNCHANGED cancelled

\* unregister_service, lines 136-147: delete the node.  `result` becomes True
\* only in the handler of NoNodeException.
unregister_service(s) ==
    /\ rpc = "idle"
    /\ rpc' = "unregister_forget"
    /\ r_service' = s
    /\ r_node' = "none"
    /\ IF ~connected
          THEN /\ r_result' = "False"
               /\ UNCHANGED znodes
          ELSE IF s \notin znodes
          THEN /\ r_result' = "True"
               /\ UNCHANGED znodes
          ELSE /\ r_result' = "False"
               /\ znodes' = znodes \ {s}
    /\ deferred' = deferred \ {s}
    /\ owed' = owed \ {s}
    /\ UNCHANGED <<session_vars, store_vars, observer_vars>>
    /\ UNCHANGED cancelled

\* unregister_service, lines 149-152
unregister_forget ==
    /\ rpc = "unregister_forget"
    /\ registered_services' = registered_services \ {r_service}
    /\ rpc' = "idle"
    /\ deferred' = deferred \ {r_service}
    /\ owed' = owed \ {r_service}
    /\ o_began' = o_began \ {r_service}
    /\ UNCHANGED <<session_vars, znodes, registration_queue, r_service, r_node,
                   r_result, opc, o_service, o_iter, o_size>>
    /\ cancelled' = IF opc = "idle" THEN cancelled \cup {r_service}
                                    ELSE cancelled

\* ------------------------------------------------------ _session_observer

\* _session_observer, lines 50, 58, 61: the next session event is delivered.
session_observer ==
    /\ opc = "idle"
    /\ session_events # << >>
    /\ session_events' = Tail(session_events)
    /\ IF Head(session_events) = "CONNECTED_STATE"
          THEN /\ opc' = "drain"
               /\ UNCHANGED <<o_iter, o_size, o_began>>
          ELSE /\ opc' = "requeue"
               /\ o_iter' \in Enumerations(registered_services)
               /\ o_size' = Cardinality(registered_services)
               /\ o_began' = registered_services
    /\ UNCHANGED <<zk_state, znodes, store_vars, caller_vars, o_service,
                   deferred, owed>>
    /\ UNCHANGED cancelled

\* _session_observer, lines 51-52: while not empty(): service = get()
observer_get ==
    /\ opc = "drain"
    /\ IF registration_queue = << >>
          THEN /\ opc' = "idle"
               /\ UNCHANGED <<registration_queue, o_service>>
          ELSE /\ opc' = "drain_check"
               /\ o_service' = Head(registration_queue)
               /\ registration_queue' = Tail(registration_queue)
    /\ UNCHANGED <<session_vars, znodes, registered_services, caller_vars,
                   o_iter, o_size, o_began, deferred, owed>>
    /\ UNCHANGED cancelled

\* A drain that would put a service whose registration failed back on the
\* queue.
observer_check_requeues ==
    /\ opc = "drain_check"
    /\ IF connected
          THEN /\ opc' = "drain_create"
               /\ UNCHANGED <<o_service, registration_queue>>
          ELSE /\ opc' = "drain"
               /\ o_service' = None
               /\ Len(registration_queue) < MaxQueue
               /\ registration_queue' = Append(registration_queue, o_service)
    /\ UNCHANGED <<session_vars, znodes, registered_services, caller_vars,
                   o_iter, o_size, o_began, deferred, owed>>
    /\ UNCHANGED cancelled

\* _register, lines 84-85, called on line 54: the RuntimeError is logged
\* (lines 55-57) and the loop goes on without the service.
observer_check ==
    /\ opc = "drain_check"
    /\ IF connected
          THEN /\ opc' = "drain_create"
               /\ UNCHANGED o_service
          ELSE /\ opc' = "drain"
               /\ o_service' = None
    /\ UNCHANGED <<session_vars, znodes, store_vars, caller_vars, o_iter,
                   o_size, o_began, deferred, owed>>
    /\ UNCHANGED cancelled

\* _register, lines 91-95 and 99-100, called on line 54.
observer_create ==
    /\ opc = "drain_create"
    /\ IF ~connected
          THEN /\ opc' = "drain"
               /\ o_service' = None
               /\ UNCHANGED <<znodes, deferred, owed>>
          ELSE IF o_service \in znodes
          THEN /\ opc' = "drain"
               /\ o_service' = None
               /\ deferred' = deferred \ {o_service}
               /\ owed' = owed \ {o_service}
               /\ UNCHANGED znodes
          ELSE /\ opc' = "drain_record"
               /\ znodes' = znodes \cup {o_service}
               /\ deferred' = deferred \ {o_service}
               /\ owed' = owed \ {o_service}
               /\ UNCHANGED o_service
    /\ UNCHANGED <<session_vars, store_vars, caller_vars, o_iter, o_size,
                   o_began>>
    /\ UNCHANGED cancelled

\* _register, line 97, called on line 54.
observer_record ==
    /\ opc = "drain_record"
    /\ registered_services' = registered_services \cup {o_service}
    /\ opc' = "drain"
    /\ o_service' = None
    /\ UNCHANGED <<session_vars, znodes, registration_queue, caller_vars,
                   o_iter, o_size, o_began, deferred, owed>>
    /\ UNCHANGED cancelled

\* _session_observer, lines 61-62: one round of the loop over
\* registered_services.iteritems(); the iterator raises RuntimeError when the
\* dict changed size since the loop began.
observer_requeue ==
    /\ opc = "requeue"
    /\ IF Cardinality(registered_services) # o_size \/ o_iter = << >>
          THEN /\ opc' = "idle"
               /\ o_iter' = << >>
               /\ o_size' = 0
               /\ o_began' = {}
               /\ UNCHANGED registration_queue
          ELSE /\ Len(registration_queue) < MaxQueue
               /\ registration_queue' = Append(registration_queue, Head(o_iter))
               /\ o_iter' = Tail(o_iter)
               /\ UNCHANGED <<opc, o_size, o_began>>
    /\ UNCHANGED <<session_vars, znodes, registered_services, caller_vars,
                   o_service, deferred, owed>>
    /\ UNCHANGED cancelled

\* ------------------------------------------------- the registrar system

\* No proxy is in use: one is constructed and left alone.
ProxyUnused ==
    /\ ProxyInit
    /\ proxy_class = "basic"
    /\ ~keepalive
    /\ registry = {}
    /\ node_of[1] = 1

RegistrarFrame ==
    UNCHANGED <<proxy_vars, hashring_vars, service_registrar_vars,
                library_vars>>

RegistrarNext ==
    \/ Disconnect /\ RegistrarFrame
    \/ Expire /\ RegistrarFrame
    \/ SessionExpired /\ RegistrarFrame
    \/ Reconnect /\ RegistrarFrame
    \/ \E s \in Services : register_service(s) /\ RegistrarFrame
    \/ register_check /\ RegistrarFrame
    \/ register_create /\ RegistrarFrame
    \/ register_record /\ RegistrarFrame
    \/ register_defer /\ RegistrarFrame
    \/ \E s \in Services : unregister_service(s) /\ RegistrarFrame
    \/ unregister_forget /\ RegistrarFrame
    \/ session_observer /\ RegistrarFrame
    \/ observer_get /\ RegistrarFrame
    \/ observer_check /\ RegistrarFrame
    \/ observer_create /\ RegistrarFrame
    \/ observer_record /\ RegistrarFrame
    \/ observer_requeue /\ RegistrarFrame

\* The process after it constructed a registrar (and a proxy it does not use).
RegistrarSystemInit ==
    ProxyUnused /\ RegistrarInit /\ HashringUnused /\ ServiceRegistrarInit
        /\ LibraryUnused

SpecRegistrar == RegistrarSystemInit /\ [][RegistrarNext]_vars

RegisterLabels == {"register_check", "register_create", "register_record",
                   "register_defer"}

\* No call, no observer run and no session event is in progress.
Quiescent ==
    /\ rpc = "idle"
    /\ opc = "idle"
    /\ session_events = << >>

\* ------------------------------------------------------ the hashring system

\* Positions of the ring (128-bit tokens in the source, a small range here)
\* and the positions this process is configured to occupy.
Tokens == 1..NumTokens
positions == {t \in Tokens : t % 2 = 1}
\* The strings handed to preference_list / find_hashring_node, and the
\* position of the ring their digest falls on.
Keys == 0..NumTokens
key_hash(data) == (2 * data + 1) % (NumTokens + 1)
\* The callables registered with add_observer.
Observers == 1..MaxObservers

\* position_data stored with a position: the instance occupying it and its
\* host.  The positions of this process are one instance; every foreign
\* position is an instance of its own, the lowest one on the host of this
\* process.
position_data(t) ==
    [service_key |-> IF t \in positions THEN 1 ELSE t,
     hostname |-> IF t \in positions THEN 1 ELSE t \div 2]
json_dumps(d) == <<d.service_key, d.hostname>>
json_loads(s) == [service_key |-> s[1], hostname |-> s[2]]

\* What a call gives: a value, or the exception it raises.
Value(v) == [exc |-> "none", value |-> v]
Raises(e) == [exc |-> e, value |-> << >>]
TokensOf(nodes) == [i \in 1..Len(nodes) |-> nodes[i].token]

\* ---- HashringWatch: the ring algebra over the watched children

RECURSIVE SortedSeq(_)
SortedSeq(S) ==
    IF S = {} THEN << >>
    ELSE LET m == CHOOSE x \in S : \A y \in S : x <= y
         IN <<m>> \o SortedSeq(S \ {m})

HashringNode(t) == [token |-> t, data |-> json_dumps(position_data(t))]
watch_hashring(children) ==
    LET tokens == SortedSeq(children)
    IN [i \in 1..Len(tokens) |-> HashringNode(tokens[i])]

\* Index of the first node with a token greater than p, wrapping to the
\* lowest token.
watch_find_index(ring, p) ==
    IF \E i \in 1..Len(ring) : ring[i].token > p
    THEN CHOOSE i \in 1..Len(ring) :
            /\ ring[i].token > p
            /\ \A j \in 1..Len(ring) : ring[j].token > p => i <= j
    ELSE 1

\* One revolution of the ring, clockwise from the node found for p.
watch_preference_list(ring, p) ==
    LET n == Len(ring)
        first == watch_find_index(ring, p)
    IN [i \in 1..n |-> ring[((first + i - 2) % n) + 1]]

\* Nodes of ring that are not in other, by token.
watch_difference(ring, other) ==
    SelectSeq(ring, LAMBDA node :
                  \A j \in 1..Len(other) : other[j].token # node.token)

\* ---- ZookeeperServiceHashring

\* ServiceHashringNode(token, service_info, data=None): the call binds its
\* keyword arguments kw or raises TypeError.
ServiceHashringNode(kw) ==
    IF {"token", "service_info"} \subseteq DOMAIN kw
    THEN Value(<<kw>>)
    ELSE Raises("TypeError")

convert_hashring_nodes(hashring_nodes) ==
    LET made == [i \in 1..Len(hashring_nodes) |->
                    ServiceHashringNode(
                        [token |-> hashring_nodes[i].token,
                         data |-> json_loads(hashring_nodes[i].data)])]
    IN IF \E i \in 1..Len(made) : made[i].exc # "none"
       THEN Raises("TypeError")
       ELSE Value([i \in 1..Len(made) |-> made[i].value[1]])

\* hashring() answering from the snapshot taken before the session was lost.
hashring_stale(ring) ==
    convert_hashring_nodes(
        IF ring = << >> THEN watch_hashring(Range(h_before)) ELSE ring)

hashring(ring) == convert_hashring_nodes(ring)

\* The loop of preference_list over the converted nodes from position i on.
RECURSIVE merge_nodes_loop(_, _, _, _, _, _)
merge_nodes_loop(nodes, i, results, keys, hostnames, merge_nodes) ==
    IF i > Len(nodes) THEN Value(results)
    ELSE IF ~ ({"service_key", "hostname"} \subseteq DOMAIN nodes[i])
    THEN Raises("AttributeError")
    ELSE IF /\ nodes[i].service_key \notin keys
            /\ (nodes[i].hostname \notin hostnames \/ ~merge_nodes)
    THEN merge_nodes_loop(nodes, i + 1, Append(results, nodes[i]),
                          keys \cup {nodes[i].service_key},
                          hostnames \cup {nodes[i].hostname}, merge_nodes)
    ELSE merge_nodes_loop(nodes, i + 1, results, keys, hostnames, merge_nodes)

\* preference_list(data, hashring=None, merge_nodes=True), called with the
\* positional arguments args.
preference_list(ring, args, merge_nodes) ==
    IF Len(args) < 1 THEN Raises("TypeError")
    ELSE LET nodes == convert_hashring_nodes(
                          watch_preference_list(ring, key_hash(args[1])))
         IN IF nodes.exc # "none" THEN nodes
            ELSE merge_nodes_loop(nodes.value, 1, << >>, {}, {}, merge_nodes)

find_hashring_node(ring, data) ==
    LET nodes == preference_list(ring, << >>, TRUE)
    IN IF nodes.exc # "none" THEN nodes
       ELSE IF nodes.value # << >> THEN Value(<<nodes.value[1]>>)
       ELSE Raises("ServiceHashringException")

ServiceHashringEvent(event_type, previous, current, added, removed) ==
    [event_type |-> event_type, previous_hashring |-> previous,
     current_hashring |-> current, added_nodes |-> added,
     removed_nodes |-> removed]

\* The hashring after start(): connected, its positions registered and
\* loaded, no observer yet.
HashringInit ==
    /\ h_state = "connected"
    /\ h_children = positions
    /\ h_ring = watch_hashring(positions)
    /\ HashringIdle

ring_vars == <<h_state, h_children, h_ring>>
callback_vars == <<cb_pc, cb_args, cb_event, cb_i, cb_invoked, cb_outcome>>
api_vars == <<h_call, h_result>>
session_history_vars == <<h_before, h_expired>>

\* The result of the last call was taken by the caller.
Ready == h_call = NoCall

\* ---- the coordinator: instances of other processes join and leave

h_join(t) ==
    /\ Ready
    /\ t \in Tokens \ positions
    /\ t \notin h_children
    /\ h_children' = h_children \cup {t}
    /\ UNCHANGED <<h_state, h_ring, observers, callback_vars, api_vars,
                   session_history_vars>>

h_leave(t) ==
    /\ Ready
    /\ t \in Tokens \ positions
    /\ t \in h_children
    /\ h_children' = h_children \ {t}
    /\ UNCHANGED <<h_state, h_ring, observers, callback_vars, api_vars,
                   session_history_vars>>

\* ---- HashringWatch: reload of the children, and the session

\* The watch fires: the snapshot is replaced and watch_observer is called
\* with the two snapshots and their differences.
watch_reload ==
    /\ Ready
    /\ cb_pc = "idle"
    /\ h_state = "connected"
    /\ h_ring # watch_hashring(h_children)
    /\ h_ring' = watch_hashring(h_children)
    /\ cb_pc' = "watch_observer"
    /\ cb_args' = [state_name |-> "none",
                   previous_hashring |-> h_ring,
                   current_hashring |-> h_ring',
                   added_nodes |-> watch_difference(h_ring', h_ring),
                   removed_nodes |-> watch_difference(h_ring, h_ring')]
    /\ UNCHANGED <<h_state, h_children, observers, cb_event, cb_i, cb_invoked,
                   cb_outcome, api_vars, session_history_vars>>

SessionCallback(state_name) ==
    /\ cb_pc' = "session_observer"
    /\ cb_args' = [NoArgs EXCEPT !.state_name = state_name]
    /\ UNCHANGED <<observers, cb_event, cb_i, cb_invoked, cb_outcome,
                   api_vars>>

\* The connection to the coordinator is lost: the view of the ring is
\* cleared.
h_disconnect ==
    /\ Ready
    /\ cb_pc = "idle"
    /\ h_state = "connected"
    /\ h_state' = "connecting"
    /\ h_ring' = << >>
    /\ h_before' = TokensOf(h_ring)
    /\ h_expired' = FALSE
    /\ SessionCallback("CONNECTING_STATE")
    /\ UNCHANGED h_children

\* The session expires: the coordinator purges the ephemeral position nodes
\* of this process.
h_expire ==
    /\ Ready
    /\ cb_pc = "idle"
    /\ h_state = "connecting"
    /\ h_state' = "expired"
    /\ h_children' = h_children \ positions
    /\ h_expired' = TRUE
    /\ SessionCallback("EXPIRED_SESSION_STATE")
    /\ UNCHANGED <<h_ring, h_before>>

\* The session is established again: the watch registers the configured
\* positions again; the ring is loaded by the next watch_reload.
h_reconnect ==
    /\ Ready
    /\ cb_pc = "idle"
    /\ h_state \in {"connecting", "expired"}
    /\ h_state' = "connected"
    /\ h_children' = h_children \cup positions
    /\ SessionCallback("CONNECTED_STATE")
    /\ UNCHANGED <<h_ring, session_history_vars>>

\* ---- ZookeeperServiceHashring: the callbacks

\* The callback returns to the watch, or raises: its frame is gone.
CallbackReturns(outcome) ==
    /\ cb_pc' = "idle"
    /\ cb_outcome' = outcome
    /\ cb_args' = NoArgs
    /\ cb_event' = NoEvent
    /\ cb_i' = 0
    /\ cb_invoked' = << >>

Dispatch(event) ==
    /\ cb_pc' = "dispatch"
    /\ cb_event' = event
    /\ cb_i' = 1
    /\ cb_invoked' = << >>
    /\ UNCHANGED <<cb_args, cb_outcome>>

hashring_watch_observer ==
    /\ Ready
    /\ cb_pc = "watch_observer"
    /\ IF observers = << >> THEN CallbackReturns("returned")
       ELSE LET previous == convert_hashring_nodes(cb_args.previous_hashring)
                current == convert_hashring_nodes(cb_args.current_hashring)
                added == convert_hashring_nodes(cb_args.added_nodes)
                removed == convert_hashring_nodes(cb_args.removed_nodes)
            IN IF \E r \in {previous, current, added, removed} :
                      r.exc # "none"
               THEN CallbackReturns("TypeError")
               ELSE Dispatch(ServiceHashringEvent(
                        "CHANGED_EVENT", previous.value, current.value,
                        added.value, removed.value))
    /\ UNCHANGED <<ring_vars, observers, api_vars, session_history_vars>>

\* The event _session_observer hands on for a state of the client; a state
\* it does not name leaves the event of the client as it is.
session_event(state_name) ==
    IF state_name = "CONNECTED_STATE"
    THEN [NoEvent EXCEPT !.event_type = "CONNECTED_EVENT"]
    ELSE IF state_name \in {"CONNECTING_STATE", "SESSION_EXPIRED_STATE"}
    THEN [NoEvent EXCEPT !.event_type = "DISCONNECTED_EVENT"]
    ELSE [NoEvent EXCEPT !.event_type = state_name]

hashring_session_observer ==
    /\ Ready
    /\ cb_pc = "session_observer"
    /\ IF observers = << >> THEN CallbackReturns("returned")
       ELSE Dispatch(session_event(cb_args.state_name))
    /\ UNCHANGED <<ring_vars, observers, api_vars, session_history_vars>>

\* One iteration without the try: what the observer raises leaves the
\* callback.
observer_invoke_uncaught ==
    /\ Ready
    /\ cb_pc = "dispatch"
    /\ cb_i <= Len(observers)
    /\ \E raised \in BOOLEAN :
          IF raised THEN CallbackReturns("Exception")
          ELSE /\ cb_invoked' = Append(cb_invoked,
                                       [observer |-> observers[cb_i],
                                        event |-> cb_event,
                                        raised |-> FALSE])
               /\ cb_i' = cb_i + 1
               /\ UNCHANGED <<cb_pc, cb_args, cb_event, cb_outcome>>
    /\ UNCHANGED <<ring_vars, observers, api_vars, session_history_vars>>

\* One iteration of `for observer in self.observers`: the observer returns
\* or raises, and an Exception is caught and logged.
observer_invoke ==
    /\ Ready
    /\ cb_pc = "dispatch"
    /\ cb_i <= Len(observers)
    /\ \E raised \in BOOLEAN :
          cb_invoked' = Append(cb_invoked, [observer |-> observers[cb_i],
                                            event |-> cb_event,
                                            raised |-> raised])
    /\ cb_i' = cb_i + 1
    /\ UNCHANGED <<ring_vars, observers, cb_pc, cb_args, cb_event, cb_outcome,
                   api_vars, session_history_vars>>

observers_done ==
    /\ Ready
    /\ cb_pc = "dispatch"
    /\ cb_i > Len(observers)
    /\ CallbackReturns("returned")
    /\ UNCHANGED <<ring_vars, observers, api_vars, session_history_vars>>

\* ---- ZookeeperServiceHashring: the public interface

\* Observers are registered and removed between callbacks.
add_observer(o) ==
    /\ Ready
    /\ cb_pc # "dispatch"
    /\ Len(observers) < MaxObservers
    /\ \A i \in 1..Len(observers) : observers[i] # o
    /\ observers' = Append(observers, o)
    /\ UNCHANGED <<ring_vars, callback_vars, api_vars, session_history_vars>>

remove_observer(o) ==
    /\ Ready
    /\ cb_pc # "dispatch"
    /\ \E i \in 1..Len(observers) : observers[i] = o
    /\ observers' = SelectSeq(observers, LAMBDA x : x # o)
    /\ UNCHANGED <<ring_vars, callback_vars, api_vars, session_history_vars>>

Called(op, data, merge_nodes, outcome) ==
    /\ Ready
    /\ h_call' = [op |-> op, data |-> data, merge_nodes |-> merge_nodes]
    /\ h_result' = outcome
    /\ UNCHANGED <<ring_vars, observers, callback_vars, session_history_vars>>

call_hashring == Called("hashring", 0, TRUE, hashring(h_ring))

call_preference_list(data, merge_nodes) ==
    Called("preference_list", data, merge_nodes,
           preference_list(h_ring, <<data>>, merge_nodes))

call_find_hashring_node(data) ==
    Called("find_hashring_node", data, TRUE, find_hashring_node(h_ring, data))

\* The caller takes the result of its call.
call_returns ==
    /\ ~Ready
    /\ h_call' = NoCall
    /\ h_result' = NoResult
    /\ UNCHANGED <<ring_vars, observers, callback_vars, session_history_vars>>

HashringFrame ==
    UNCHANGED <<proxy_vars, registrar_vars, service_registrar_vars,
                library_vars>>

HashringNext ==
    \/ \E t \in Tokens : h_join(t) /\ HashringFrame
    \/ \E t \in Tokens : h_leave(t) /\ HashringFrame
    \/ watch_reload /\ HashringFrame
    \/ h_disconnect /\ HashringFrame
    \/ h_expire /\ HashringFrame
    \/ h_reconnect /\ HashringFrame
    \/ hashring_watch_observer /\ HashringFrame
    \/ hashring_session_observer /\ HashringFrame
    \/ observer_invoke /\ HashringFrame
    \/ observers_done /\ HashringFrame
    \/ \E o \in Observers : add_observer(o) /\ HashringFrame
    \/ \E o \in Observers : remove_observer(o) /\ HashringFrame
    \/ call_hashring /\ HashringFrame
    \/ \E data \in Keys, m \in BOOLEAN :
          call_preference_list(data, m) /\ HashringFrame
    \/ \E data \in Keys : call_find_hashring_node(data) /\ HashringFrame
    \/ call_returns /\ HashringFrame

\* The process after it started a hashring (and a proxy and a registrar it
\* does not use).
HashringSystemInit ==
    ProxyUnused /\ RegistrarUnused /\ HashringInit /\ ServiceRegistrarInit
        /\ LibraryUnused

SpecHashring == HashringSystemInit /\ [][HashringNext]_vars

\* ------------------------- the registrar of the service handlers system

\* ServiceInfo.to_json / from_json of the instance of a service, as stored
\* with its node.
to_json(svc) == <<"ServiceInfo", svc>>
from_json(data) == data[2]

\* _register: the path of the node is /services/<name>/registry/<name>, and
\* create(..., sequence=True) appends the next sequence number of the parent.
sr_register(svc) ==
    /\ sr_children' = sr_children \cup
                         {[service |-> svc, sequence |-> sr_sequence,
                           data |-> to_json(svc)]}
    /\ sr_sequence' = sr_sequence + 1
    /\ registered_service_node' = svc

\* register_service: registers, or puts the service on the queue if
\* _register raises (not connected).
sr_register_service(svc) ==
    /\ sr_sequence <= MaxSequence
    /\ IF sr_connected
       THEN /\ sr_register(svc)
            /\ sr_registered' = sr_registered \cup {svc}
            /\ sr_restored' = (sr_restored \/ sr_unregistered = svc)
            /\ UNCHANGED <<sr_queue, sr_unregistered>>
       ELSE /\ Len(sr_queue) < MaxQueue
            /\ sr_queue' = Append(sr_queue, svc)
            /\ UNCHANGED <<sr_children, sr_sequence, registered_service_node,
                           sr_registered, sr_unregistered, sr_restored>>
    /\ UNCHANGED sr_connected

\* unregister_service(): deletes the path kept in registered_service_node,
\* which is the path handed to create, without the sequence number the
\* coordinator appended: no node has that path, the delete raises and the
\* exception is logged.  Nothing of the registrar or the coordinator changes.
sr_unregister_service ==
    /\ registered_service_node # None
    /\ sr_unregistered' = registered_service_node
    /\ sr_restored' = FALSE
    /\ sr_registered' = sr_registered \ {registered_service_node}
    /\ UNCHANGED <<sr_connected, sr_children, sr_sequence, sr_queue,
                   registered_service_node>>

sr_disconnect ==
    /\ sr_connected
    /\ sr_connected' = FALSE
    /\ UNCHANGED <<sr_children, sr_sequence, sr_queue,
                   registered_service_node, sr_registered, sr_unregistered,
                   sr_restored>>

\* _session_observer on CONNECTED_STATE: every queued service is registered.
sr_session_observer ==
    /\ ~sr_connected
    /\ sr_sequence + Len(sr_queue) <= MaxSequence + 1
    /\ sr_connected' = TRUE
    /\ sr_children' = sr_children \cup
          {[service |-> sr_queue[i], sequence |-> sr_sequence + i - 1,
            data |-> to_json(sr_queue[i])] : i \in 1..Len(sr_queue)}
    /\ sr_sequence' = sr_sequence + Len(sr_queue)
    /\ registered_service_node' =
          IF sr_queue = << >> THEN registered_service_node
          ELSE sr_queue[Len(sr_queue)]
    /\ sr_queue' = << >>
    /\ UNCHANGED <<sr_registered, sr_unregistered, sr_restored>>

\* find_services(name): the ServiceInfo of every child of the registry, in
\* the order of the sequence numbers; the empty list if the coordinator
\* cannot be asked.
find_services ==
    IF ~sr_connected THEN << >>
    ELSE LET numbers == SortedSeq({c.sequence : c \in sr_children})
             child(n) == CHOOSE c \in sr_children : c.sequence = n
         IN [i \in 1..Len(numbers) |-> from_json(child(numbers[i]).data)]

\* ServiceInfo.hostname of the instance of a service, compared with
\* socket.gethostname(): the last service runs on another host.
info_hostname(svc) == IF svc = NumServices THEN "remote" ELSE "local"

\* locate_service(name, host_affinity): the results random.choice may give;
\* None when nothing is registered or the coordinator cannot be asked.
sr_locate_service(host_affinity) ==
    LET services == {from_json(c.data) : c \in sr_children}
        on_host == {s \in services : info_hostname(s) = "local"}
    IN IF ~sr_connected \/ services = {} THEN {None}
       ELSE IF host_affinity /\ on_host # {} THEN on_host
       ELSE services

\* locate_zookeeper_service(name, host_affinity): the (path, ServiceInfo)
\* tuples it may return.  `result` starts as (None, None) and is assigned only
\* under host_affinity with an instance on this host: the fallback of line
\* 193 tests `result is None`, which a tuple never is.
sr_locate_zookeeper_service(host_affinity) ==
    LET services == {<<<<"registry", c.service, c.sequence>>,
                       from_json(c.data)>> : c \in sr_children}
        on_host == {p \in services : info_hostname(p[2]) = "local"}
    IN IF ~sr_connected \/ services = {} THEN {<<None, None>>}
       ELSE IF host_affinity /\ on_host # {} THEN on_host
       ELSE {<<None, None>>}

ServiceRegistrarFrame ==
    UNCHANGED <<proxy_vars, registrar_vars, hashring_vars, library_vars>>

ServiceRegistrarNext ==
    \/ \E s \in Services : sr_register_service(s) /\ ServiceRegistrarFrame
    \/ sr_unregister_service /\ ServiceRegistrarFrame
    \/ sr_disconnect /\ ServiceRegistrarFrame
    \/ sr_session_observer /\ ServiceRegistrarFrame

\* The process after it constructed the registrar of its service handler.
ServiceRegistrarSystemInit ==
    ProxyUnused /\ RegistrarUnused /\ HashringUnused /\ ServiceRegistrarInit
        /\ LibraryUnused

SpecServiceRegistrar ==
    ServiceRegistrarSystemInit /\ [][ServiceRegistrarNext]_vars

\* --------------------------------------- locate_service (registrar/zoo.py)

\* Every other subsystem of the process is left alone.
SystemsIdle ==
    UNCHANGED <<proxy_vars, registrar_vars, hashring_vars,
                service_registrar_vars>>

\* Another process registers or unregisters an instance: its node appears
\* in the registry or disappears from it.
l_register(s) ==
    /\ s \notin l_registry
    /\ l_registry' = l_registry \cup {s}
    /\ UNCHANGED <<l_connected, lpc, l_affinity, l_children, l_services,
                   l_result, l_raised, l_seen>>

l_unregister(s) ==
    /\ s \in l_registry
    /\ l_registry' = l_registry \ {s}
    /\ UNCHANGED <<l_connected, lpc, l_affinity, l_children, l_services,
                   l_result, l_raised, l_seen>>

\* The caller's client loses or regains its connection.
l_session ==
    /\ l_connected' = ~l_connected
    /\ UNCHANGED <<l_registry, lpc, l_affinity, l_children, l_services,
                   l_result, l_raised, l_seen>>

\* locate_service, lines 166-171: result = None, services = [], and the
\* children of the registry are listed; a client that is not connected
\* raises, and line 187 catches and logs it.
locate_service(host_affinity) ==
    /\ lpc = "idle"
    /\ l_affinity' = host_affinity
    /\ l_seen' = l_registry
    /\ l_result' = None
    /\ l_services' = {}
    /\ IF l_connected
          THEN /\ l_children' = l_registry
               /\ lpc' = "get_data"
               /\ l_raised' = FALSE
          ELSE /\ l_children' = {}
               /\ lpc' = "done"
               /\ l_raised' = TRUE
    /\ UNCHANGED <<l_connected, l_registry>>

\* locate_service, lines 172-174: the data of the next child is read and
\* turned into a ServiceInfo; the read raises when the node is gone or the
\* client lost its connection, and locate_service returns None.
locate_get_data ==
    /\ lpc = "get_data"
    /\ l_children # {}
    /\ \E child \in l_children :
          IF l_connected /\ child \in l_registry
             THEN /\ l_services' = l_services \cup {from_json(to_json(child))}
                  /\ l_children' = l_children \ {child}
                  /\ UNCHANGED <<lpc, l_raised>>
             ELSE /\ lpc' = "done"
                  /\ l_raised' = TRUE
                  /\ UNCHANGED <<l_services, l_children>>
    /\ UNCHANGED <<l_connected, l_registry, l_affinity, l_result, l_seen>>

\* locate_service, lines 176-185: the instances random.choice may return.
locate_choice_random(services, host_affinity) == services

locate_choice(services, host_affinity) ==
    LET on_host == {s \in services : info_hostname(s) = "local"}
    IN IF host_affinity /\ on_host # {} THEN on_host ELSE services

locate_choose ==
    /\ lpc = "get_data"
    /\ l_children = {}
    /\ IF l_services = {}
          THEN l_result' = None
          ELSE l_result' \in locate_choice(l_services, l_affinity)
    /\ lpc' = "done"
    /\ UNCHANGED <<l_connected, l_registry, l_affinity, l_children,
                   l_services, l_raised, l_seen>>

\* locate_service, line 190: return result.
locate_return ==
    /\ lpc = "done"
    /\ lpc' = "idle"
    /\ l_affinity' = FALSE
    /\ l_children' = {}
    /\ l_services' = {}
    /\ l_result' = None
    /\ l_raised' = FALSE
    /\ l_seen' = {}
    /\ UNCHANGED <<l_connected, l_registry>>

LocateFrame ==
    SystemsIdle /\ UNCHANGED <<serialization_vars, database_job_vars,
                               job_queue_vars, session_store_vars,
                               thrift_server_vars>>

LocateNext ==
    \/ \E s \in Services : l_register(s) /\ LocateFrame
    \/ \E s \in Services : l_unregister(s) /\ LocateFrame
    \/ l_session /\ LocateFrame
    \/ \E a \in BOOLEAN : locate_service(a) /\ LocateFrame
    \/ locate_get_data /\ LocateFrame
    \/ locate_choose /\ LocateFrame
    \/ locate_return /\ LocateFrame

\* A process that only looks services up.
LocateSystemInit ==
    ProxyUnused /\ RegistrarUnused /\ HashringUnused /\ ServiceRegistrarInit
        /\ LibraryUnused

SpecLocate == LocateSystemInit /\ [][LocateNext]_vars

\* ------------------- ServiceInfo, ServerInfo, ServerEndpoint, ServiceRegistration

MaxServers == 1
MaxEndpoints == 1

\* json.dumps and json.loads: a string that holds the structure, and the
\* isinstance(data, basestring) test of the from_json methods.
dumps(d) == [str |-> d]
loads(data) == data.str
basestring(data) == "str" \in DOMAIN data

ServerEndpoint(address, port, protocol, transport) ==
    [class |-> "ServerEndpoint", address |-> address, port |-> port,
     protocol |-> protocol, transport |-> transport]

ServerEndpoint_to_json(e) ==
    [address |-> e.address, port |-> e.port, protocol |-> e.protocol,
     transport |-> e.transport]

ServerEndpoint_from_json(data) ==
    LET json_dict == IF basestring(data) THEN loads(data) ELSE data
    IN ServerEndpoint(json_dict.address, json_dict.port, json_dict.protocol,
                      json_dict.transport)

\* `endpoints or []`
ServerInfo(name, endpoints) ==
    [class |-> "ServerInfo", name |-> name, endpoints |-> endpoints]

ServerInfo_to_json(server) ==
    [name |-> server.name,
     endpoints |-> [i \in 1..Len(server.endpoints) |->
                      ServerEndpoint_to_json(server.endpoints[i])]]

ServerInfo_from_json(data) ==
    LET json_dict == IF basestring(data) THEN loads(data) ELSE data
    IN ServerInfo(json_dict.name,
                  [i \in 1..Len(json_dict.endpoints) |->
                     ServerEndpoint_from_json(json_dict.endpoints[i])])

ServiceInfo(name, version, build, hostname, fqdn, key, servers) ==
    [class |-> "ServiceInfo", name |-> name, version |-> version,
     build |-> build, hostname |-> hostname, fqdn |-> fqdn, key |-> key,
     servers |-> servers]

ServiceInfo_to_json(info) ==
    [name |-> info.name, version |-> info.version, build |-> info.build,
     hostname |-> info.hostname, fqdn |-> info.fqdn, key |-> info.key,
     servers |-> [i \in 1..Len(info.servers) |->
                    ServerInfo_to_json(info.servers[i])]]

ServiceInfo_from_json(data) ==
    LET json_dict == IF basestring(data) THEN loads(data) ELSE data
    IN Value(ServiceInfo(json_dict.name, json_dict.version, json_dict.build,
                         json_dict.hostname, json_dict.fqdn, json_dict.key,
                         [i \in 1..Len(json_dict.servers) |->
                            ServerInfo_from_json(json_dict.servers[i])]))

\* `hostname or socket.gethostname()`, `fqdn or socket.getfqdn()`
ServiceRegistration(service_name, service_port, hostname, fqdn) ==
    [class |-> "ServiceRegistration", name |-> service_name,
     port |-> service_port,
     hostname |-> IF hostname = "" THEN "local" ELSE hostname,
     fqdn |-> IF fqdn = "" THEN "local.domain" ELSE fqdn]

ServiceRegistration_to_json(registration) ==
    [name |-> registration.name, port |-> registration.port,
     hostname |-> registration.hostname, fqdn |-> registration.fqdn]

\* json.loads(data) without a test of what data is: a dict is a TypeError.
ServiceRegistration_from_json(data) ==
    IF ~basestring(data) THEN Raises("TypeError")
    ELSE LET json_dict == loads(data)
         IN Value(ServiceRegistration(json_dict.name, json_dict.port,
                                      json_dict.hostname, json_dict.fqdn))

\* An object was constructed: a ServiceInfo with up to MaxServers servers of
\* up to MaxEndpoints endpoints each, or a ServiceRegistration.
SerializationInit ==
    /\ ser_pc = "object"
    /\ LET ListsOf(S, n) == UNION {[1..k -> S] : k \in 0..n}
           ServerEndpoints ==
               {ServerEndpoint("local", port, "thrift", transport) :
                   port \in {9090, 9091}, transport \in {"tcp", "zmq"}}
           ServerInfos ==
               {ServerInfo("thrift", endpoints) :
                   endpoints \in ListsOf(ServerEndpoints, MaxEndpoints)}
           ServiceInfos ==
               {ServiceInfo("chatsvc", "1.0", "1", hostname, "local.domain",
                            key, servers) :
                   hostname \in {"local", "remote"}, key \in {"k1", "k2"},
                   servers \in ListsOf(ServerInfos, MaxServers)}
           ServiceRegistrations ==
               {ServiceRegistration("chatsvc", port, hostname, "") :
                   port \in {9090, 9091}, hostname \in {"", "remote"}}
       IN ser_x \in ServiceInfos \cup ServiceRegistrations
    /\ ser_data = [class |-> "none"]
    /\ ser_back = [exc |-> "none", value |-> << >>]

\* x.to_json()
ser_to_json ==
    /\ ser_pc = "object"
    /\ ser_data' = IF ser_x.class = "ServiceInfo"
                      THEN ServiceInfo_to_json(ser_x)
                      ELSE ServiceRegistration_to_json(ser_x)
    /\ ser_pc' = "dict"
    /\ UNCHANGED <<ser_x, ser_back>>

\* json.dumps(x.to_json()), as the registrars store it
ser_dumps ==
    /\ ser_pc = "dict"
    /\ ser_data' = dumps(ser_data)
    /\ ser_pc' = "string"
    /\ UNCHANGED <<ser_x, ser_back>>

\* X.from_json(data), of the dict or of the string
ser_from_json ==
    /\ ser_pc \in {"dict", "string"}
    /\ ser_back' = IF ser_x.class = "ServiceInfo"
                      THEN ServiceInfo_from_json(ser_data)
                      ELSE ServiceRegistration_from_json(ser_data)
    /\ ser_pc' = "done"
    /\ UNCHANGED <<ser_x, ser_data>>

SerializationFrame ==
    SystemsIdle /\ UNCHANGED <<locate_vars, database_job_vars, job_queue_vars,
                               session_store_vars, thrift_server_vars>>

SerializationNext ==
    \/ ser_to_json /\ SerializationFrame
    \/ ser_dumps /\ SerializationFrame
    \/ ser_from_json /\ SerializationFrame

SerializationSystemInit ==
    ProxyUnused /\ RegistrarUnused /\ HashringUnused /\ ServiceRegistrarInit
        /\ LocateInit /\ SerializationInit /\ DatabaseJobInit /\ JobQueueInit
        /\ SessionStoreInit /\ ThriftServerInit

SpecSerialization == SerializationSystemInit /\ [][SerializationNext]_vars

\* ------------------------------------------------- DatabaseJob (db/job.py)

\* DatabaseJobQueue.run, lines 404-411: the poll finds a row with no owner
\* and no start and constructs a DatabaseJob for it with the owner of the
\* queue; get() hands it to a consumer.
run_put(d, owner, id) ==
    /\ job_objects[d].state = "none"
    /\ job_rows[id].owner = "NULL" /\ job_rows[id].start = "NULL"
    /\ job_objects' = [job_objects EXCEPT ![d] =
                         [state |-> "queued", owner |-> owner, model_id |-> id,
                          model |-> NewRow, exc |-> "none"]]
    /\ UNCHANGED job_rows

\* _start_update_values, _end_update_values, _abort_update_values
start_update_values(owner) == [owner |-> owner, start |-> "utcnow"]
end_update_values == [end |-> "current_timestamp", successful |-> "True"]
abort_update_values_successful ==
    [end |-> "current_timestamp", successful |-> "True"]
abort_update_values == [end |-> "current_timestamp", successful |-> "False"]

\* __enter__ and _start: UPDATE ... SET owner, start WHERE id = model_id AND
\* owner IS NULL, one statement of the database.  With a row updated the
\* session commits and the model is read back; with none, line 200 raises:
\* it reads `raise JobOwned("...") % (...)`, so the operand of raise is
\* JobOwned(...) % tuple, whose evaluation is a TypeError.
job_enter(d) ==
    /\ job_objects[d].state = "queued"
    /\ LET id == job_objects[d].model_id
           values == start_update_values(job_objects[d].owner)
           row == [job_rows[id] EXCEPT !.owner = values.owner,
                                       !.start = values.start]
       IN IF job_rows[id].owner = "NULL"
             THEN /\ job_rows' = [job_rows EXCEPT ![id] = row]
                  /\ job_objects' = [job_objects EXCEPT
                                       ![d].state = "block", ![d].model = row]
             ELSE /\ job_objects' = [job_objects EXCEPT
                                       ![d].state = "raised",
                                       ![d].exc = "TypeError"]
                  /\ UNCHANGED job_rows

\* __exit__ without an exception, and _end
job_exit(d) ==
    /\ job_objects[d].state = "block"
    /\ LET id == job_objects[d].model_id
           values == end_update_values
           row == [job_rows[id] EXCEPT !.end = values.end,
                                       !.successful = values.successful]
       IN /\ job_rows' = [job_rows EXCEPT ![id] = row]
          /\ job_objects' = [job_objects EXCEPT
                               ![d].state = "exited", ![d].model = row]

\* __exit__ with the exception the block raised, and _abort; __exit__
\* returns None and the exception goes on to the caller.
job_exit_exception(d, exc_type) ==
    /\ job_objects[d].state = "block"
    /\ LET id == job_objects[d].model_id
           values == abort_update_values
           row == [job_rows[id] EXCEPT !.end = values.end,
                                       !.successful = values.successful]
       IN /\ job_rows' = [job_rows EXCEPT ![id] = row]
          /\ job_objects' = [job_objects EXCEPT
                               ![d].state = "exited", ![d].model = row,
                               ![d].exc = exc_type]

DatabaseJobFrame ==
    SystemsIdle /\ UNCHANGED <<locate_vars, serialization_vars, job_queue_vars,
                               session_store_vars, thrift_server_vars>>

DatabaseJobNext ==
    \/ \E d \in JobObjects, owner \in {"unittest", "archivesvc"}, id \in RowIds :
          run_put(d, owner, id) /\ DatabaseJobFrame
    \/ \E d \in JobObjects : job_enter(d) /\ DatabaseJobFrame
    \/ \E d \in JobObjects : job_exit(d) /\ DatabaseJobFrame
    \/ \E d \in JobObjects :
          job_exit_exception(d, "ValueError") /\ DatabaseJobFrame

\* A process that consumes the jobs of a table.
DatabaseJobSystemInit ==
    ProxyUnused /\ RegistrarUnused /\ HashringUnused /\ ServiceRegistrarInit
        /\ LibraryUnused

SpecDatabaseJob == DatabaseJobSystemInit /\ [][DatabaseJobNext]_vars

\* -------------------------------------------- DatabaseJobQueue (db/job.py)

MaxConsumers == 101
MaxQueuedJobs == 1
STOP_ITEMS == 100

\* start(), lines 389-396: clears the exit event, takes the STOP items out
\* of the queue, sets running and starts a new thread on run(), which
\* makes its session (line 401).
q_start ==
    /\ ~q_running
    /\ \E t \in Pollers :
          /\ q_threads[t] = "unstarted"
          /\ \A u \in 1..(t - 1) : q_threads[u] # "unstarted"
          /\ q_threads' = [q_threads EXCEPT ![t] = "loop"]
    /\ q_queue' = SelectSeq(q_queue, LAMBDA item : item # "STOP")
    /\ q_running' = TRUE
    /\ q_stop_done' = FALSE
    /\ UNCHANGED <<c_blocked, q_outcome, q_while_running>>

\* run(), line 403: while self.running
q_run_loop(t) ==
    /\ q_threads[t] = "loop"
    /\ q_threads' = [q_threads EXCEPT ![t] =
                        IF q_running THEN "poll" ELSE "closing"]
    /\ UNCHANGED <<q_running, q_queue, c_blocked, q_stop_done, q_outcome,
                   q_while_running>>

\* run(), lines 404-418: the poll puts the DatabaseJob of a new row, if
\* there is one, and waits on the exit event for poll_seconds at most.
q_run(t) ==
    /\ q_threads[t] = "poll"
    /\ q_threads' = [q_threads EXCEPT ![t] = "loop"]
    /\ \/ /\ Len(SelectSeq(q_queue, LAMBDA item : item = "job"))
                < MaxQueuedJobs
          /\ q_queue' = Append(q_queue, "job")
       \/ UNCHANGED q_queue
    /\ UNCHANGED <<q_running, c_blocked, q_stop_done, q_outcome,
                   q_while_running>>

\* run(), lines 420-421: self.running = False; session.close(); the thread
\* exits.
q_run_exit(t) ==
    /\ q_threads[t] = "closing"
    /\ q_threads' = [q_threads EXCEPT ![t] = "exited"]
    /\ q_running' = FALSE
    /\ UNCHANGED <<q_queue, c_blocked, q_stop_done, q_outcome,
                   q_while_running>>

\* _add_stop_items: xrange(100) puts of STOP_ITEM
add_stop_items(queue) == queue \o [i \in 1..STOP_ITEMS |-> "STOP"]

\* stop(): only while running; running = False, the exit event is set and
\* the STOP items are put.
q_stop ==
    /\ q_running
    /\ q_running' = FALSE
    /\ q_queue' = add_stop_items(q_queue)
    /\ q_stop_done' = TRUE
    /\ UNCHANGED <<c_blocked, q_outcome, q_while_running, q_threads>>

\* What get() does with the item it took
get_result(item) == IF item = "STOP" THEN "QueueStopped" ELSE "job"

\* get(block): QueueStopped when not running; otherwise the head of the
\* queue, and with an empty queue the consumer blocks or gets QueueEmpty.
q_get(block) ==
    /\ q_while_running' = q_running
    /\ IF ~q_running
          THEN /\ q_outcome' = "QueueStopped"
               /\ UNCHANGED <<q_queue, c_blocked>>
          ELSE IF q_queue # << >>
          THEN /\ q_outcome' = get_result(Head(q_queue))
               /\ q_queue' = Tail(q_queue)
               /\ UNCHANGED c_blocked
          ELSE IF block
          THEN /\ c_blocked < MaxConsumers
               /\ c_blocked' = c_blocked + 1
               /\ UNCHANGED <<q_queue, q_outcome>>
          ELSE /\ q_outcome' = "QueueEmpty"
               /\ UNCHANGED <<q_queue, c_blocked>>
    /\ UNCHANGED <<q_running, q_stop_done, q_threads>>

\* A consumer blocked in self.queue.get is given the head of the queue.
q_get_wakes ==
    /\ c_blocked > 0
    /\ q_queue # << >>
    /\ c_blocked' = c_blocked - 1
    /\ q_outcome' = get_result(Head(q_queue))
    /\ q_while_running' = TRUE
    /\ q_queue' = Tail(q_queue)
    /\ UNCHANGED <<q_running, q_stop_done, q_threads>>

JobQueueFrame ==
    SystemsIdle /\ UNCHANGED <<locate_vars, serialization_vars,
                               database_job_vars, session_store_vars,
                               thrift_server_vars>>

JobQueueNext ==
    \/ q_start /\ JobQueueFrame
    \/ \E t \in Pollers : q_run_loop(t) /\ JobQueueFrame
    \/ \E t \in Pollers : q_run(t) /\ JobQueueFrame
    \/ \E t \in Pollers : q_run_exit(t) /\ JobQueueFrame
    \/ q_stop /\ JobQueueFrame
    \/ \E block \in BOOLEAN : q_get(block) /\ JobQueueFrame
    \/ q_get_wakes /\ JobQueueFrame

\* A process with a job queue and consumer threads.
JobQueueSystemInit ==
    ProxyUnused /\ RegistrarUnused /\ HashringUnused /\ ServiceRegistrarInit
        /\ LibraryUnused

SpecJobQueue == JobQueueSystemInit /\ [][JobQueueNext]_vars

\* -------------------------------------- RiakSessionStore (session/riak.py)

\* create(user_id=..., session_key=...), lines 125-134, the first pass of
\* the loop: without a key from the caller one is generated; the object of
\* the key is fetched; a key that exists raises SessionException when the
\* caller provided it and starts the loop again when not.
create(c, user_id, session_key) ==
    /\ ss_callers[c].pc = "idle"
    /\ \E k \in (IF session_key = "none" THEN create_session_key
                                          ELSE {session_key}) :
          ss_callers' = [ss_callers EXCEPT ![c] =
             [pc |-> IF ~ss_bucket[k].exists THEN "store"
                     ELSE IF session_key # "none" THEN "done" ELSE "retry",
              key |-> k, user_id |-> user_id,
              exists |-> ss_bucket[k].exists,
              outcome |-> IF ss_bucket[k].exists /\ session_key # "none"
                             THEN "SessionException" ELSE "none",
              provided |-> session_key # "none",
              attempts |-> 1]]
    /\ UNCHANGED ss_bucket

\* create, lines 124-134, a later pass of the loop after `continue`:
\* session_key holds the key of the pass before, so
\* `session_key or self._create_session_key()` keeps it; the object of the
\* key is fetched again.
create_retry(c) ==
    /\ ss_callers[c].pc = "retry"
    /\ ss_callers[c].attempts < MaxAttempts
    /\ LET k == ss_callers[c].key
       IN  ss_callers' = [ss_callers EXCEPT
                            ![c].pc = IF ss_bucket[k].exists
                                         THEN "retry" ELSE "store",
                            ![c].exists = ss_bucket[k].exists,
                            ![c].attempts = @ + 1]
    /\ UNCHANGED ss_bucket

\* session.store(if_none_match=True) raises when the key holds an object.
store_overwrites(bucket, session_key) == FALSE

store_raises(bucket, session_key) == bucket[session_key].exists

\* create, lines 136-159: the data is stored unless the key exists by now,
\* which raises SessionException for a key the caller provided and starts
\* the loop again for a generated one.
create_store(c) ==
    /\ ss_callers[c].pc = "store"
    /\ IF store_raises(ss_bucket, ss_callers[c].key)
          THEN /\ ss_callers' = [ss_callers EXCEPT ![c] =
                     IF ss_callers[c].provided
                        THEN [@ EXCEPT !.pc = "done",
                                       !.outcome = "SessionException"]
                        ELSE [@ EXCEPT !.pc = "retry"]]
               /\ UNCHANGED ss_bucket
          ELSE /\ ss_bucket' = [ss_bucket EXCEPT ![ss_callers[c].key] =
                                  [exists |-> TRUE,
                                   user_id |-> ss_callers[c].user_id]]
               /\ ss_callers' = [ss_callers EXCEPT
                                   ![c].pc = "done",
                                   ![c].outcome = "RiakSession"]

SessionStoreFrame ==
    SystemsIdle /\ UNCHANGED <<locate_vars, serialization_vars,
                               database_job_vars, job_queue_vars,
                               thrift_server_vars>>

SessionStoreNext ==
    \/ \E c \in Creators, user_id \in {"u1", "u2"},
          session_key \in SessionKeys \cup {"none"} :
             create(c, user_id, session_key) /\ SessionStoreFrame
    \/ \E c \in Creators : create_retry(c) /\ SessionStoreFrame
    \/ \E c \in Creators : create_store(c) /\ SessionStoreFrame

\* A process whose threads create sessions.
SessionStoreSystemInit ==
    ProxyUnused /\ RegistrarUnused /\ HashringUnused /\ ServiceRegistrarInit
        /\ LibraryUnused

SpecSessionStore == SessionStoreSystemInit /\ [][SessionStoreNext]_vars

\* ----------------------------- ThriftServer (service/server/default.py)

\* start(), lines 91-97: a server that is not running becomes STARTING and
\* running, and self.thread is started; a Thread object that was started
\* before raises RuntimeError.
ts_start ==
    /\ ~ts_running
    /\ ts_stop_pc = "idle"
    /\ ts_status' = "STARTING"
    /\ ts_running' = TRUE
    /\ IF ts_run_pc = "unstarted"
          THEN ts_run_pc' = "spawn" /\ ts_raised' = "none"
          ELSE ts_raised' = "RuntimeError" /\ UNCHANGED ts_run_pc
    /\ UNCHANGED <<ts_errors, ts_serve_pc, ts_stop_pc, ts_dead>>

\* stop(), lines 136-137: if self.running: self._status = Status.STOPPING
ts_stop ==
    /\ ts_stop_pc = "idle"
    /\ ts_running
    /\ ts_status' = "STOPPING"
    /\ ts_stop_pc' = "clear"
    /\ UNCHANGED <<ts_running, ts_errors, ts_run_pc, ts_serve_pc, ts_raised,
                   ts_dead>>

\* stop(), lines 138-146: self.running = False, then the handler and the
\* thrift server are told to stop, which does not unblock serve().
ts_stop_clear ==
    /\ ts_stop_pc = "clear"
    /\ ts_running' = FALSE
    /\ ts_stop_pc' = "idle"
    /\ UNCHANGED <<ts_status, ts_errors, ts_run_pc, ts_serve_pc, ts_raised,
                   ts_dead>>

\* run(), lines 104-106: the daemon thread of _run_server is started.
ts_run_spawn ==
    /\ ts_run_pc = "spawn"
    /\ ts_run_pc' = "alive"
    /\ ts_serve_pc' = "loop"
    /\ ts_errors' = 0
    /\ UNCHANGED <<ts_running, ts_status, ts_stop_pc, ts_raised, ts_dead>>

\* run(), line 108: self._status = Status.ALIVE
ts_run_alive ==
    /\ ts_run_pc = "alive"
    /\ ts_status' = "ALIVE"
    /\ ts_run_pc' = "wait"
    /\ UNCHANGED <<ts_running, ts_errors, ts_serve_pc, ts_stop_pc, ts_raised,
                   ts_dead>>

\* run(), lines 111-115: while self.running: thread.join(1); the step that
\* leaves the loop.
ts_run_wait ==
    /\ ts_run_pc = "wait"
    /\ ~ts_running
    /\ ts_run_pc' = "final"
    /\ UNCHANGED <<ts_running, ts_status, ts_errors, ts_serve_pc, ts_stop_pc,
                   ts_raised, ts_dead>>

\* run(), lines 118-119: STOPPED unless the status is DEAD; the thread exits.
ts_run_final ==
    /\ ts_run_pc = "final"
    /\ ts_status' = IF ts_status # "DEAD" THEN "STOPPED" ELSE ts_status
    /\ ts_run_pc' = "exited"
    /\ UNCHANGED <<ts_running, ts_errors, ts_serve_pc, ts_stop_pc, ts_raised,
                   ts_dead>>

\* _run_server, line 68: while self.running
ts_serve_loop ==
    /\ ts_serve_pc = "loop"
    /\ ts_serve_pc' = IF ts_running THEN "serving" ELSE "exited"
    /\ UNCHANGED <<ts_running, ts_status, ts_errors, ts_run_pc, ts_stop_pc,
                   ts_raised, ts_dead>>

\* _run_server, lines 69-89: serve() returns, or raises: the error is
\* counted, and the ERROR_LIMIT-th one sets the status DEAD and leaves the
\* loop.
ts_serve(raises) ==
    /\ ts_serve_pc = "serving"
    /\ IF ~raises
          THEN /\ ts_serve_pc' = "loop"
               /\ UNCHANGED <<ts_errors, ts_status, ts_dead>>
          ELSE /\ ts_errors' = ts_errors + 1
               /\ IF ts_errors + 1 >= ERROR_LIMIT
                     THEN /\ ts_status' = "DEAD"
                          /\ ts_dead' = TRUE
                          /\ ts_serve_pc' = "exited"
                     ELSE /\ ts_serve_pc' = "loop"
                          /\ UNCHANGED <<ts_status, ts_dead>>
    /\ UNCHANGED <<ts_running, ts_run_pc, ts_stop_pc, ts_raised>>

ThriftServerFrame ==
    SystemsIdle /\ UNCHANGED <<locate_vars, serialization_vars,
                               database_job_vars, job_queue_vars,
                               session_store_vars>>

ThriftServerNext ==
    \/ ts_start /\ ThriftServerFrame
    \/ ts_stop /\ ThriftServerFrame
    \/ ts_stop_clear /\ ThriftServerFrame
    \/ ts_run_spawn /\ ThriftServerFrame
    \/ ts_run_alive /\ ThriftServerFrame
    \/ ts_run_wait /\ ThriftServerFrame
    \/ ts_run_final /\ ThriftServerFrame
    \/ ts_serve_loop /\ ThriftServerFrame
    \/ \E raises \in BOOLEAN : ts_serve(raises) /\ ThriftServerFrame

\* A process that starts and stops its thrift server.
ThriftServerSystemInit ==
    ProxyUnused /\ RegistrarUnused /\ HashringUnused /\ ServiceRegistrarInit
        /\ LibraryUnused

SpecThriftServer == ThriftServerSystemInit /\ [][ThriftServerNext]_vars

\* ================================================================ claims

\* C1: the active slot is never overwritten with an empty staged slot, for
\* every interleaving of user calls and watch callbacks: no step replaces the
\* active client by None.
C1_ActiveNeverEmptied == [][service' # service => service' # None]_vars

\* C2: the transport that the method wrapper opens or closes is the transport
\* of the client whose method it invokes, also when a staged replacement is
\* swapped in between obtaining the method and the end of the call.
C2_WrapperUsesOwnTransport ==
    [][\A u \in Users :
          (pc[u] \in {"wrapper_open", "wrapper_close"} /\ pc'[u] # pc[u])
              => service_transport = method[u]]_vars

\* C3: the watch callback never modifies the active slot; it writes the
\* staged slot only, and only while it holds the proxy lock.
C3_WatchWritesStagedUnderLock ==
    [][(wpc' # wpc \/ (watch_pending /\ ~watch_pending'))
          => /\ ActiveSlot' = ActiveSlot
             /\ (StagedSlot' # StagedSlot => lock = "watch")]_vars

\* C3 witness: the watch has staged a replacement while the active slot is
\* still bound to the instance that disappeared.
C3_Witness ==
    /\ proxy_class = "zookeeper"
    /\ wpc = "idle"
    /\ staged_service # None
    /\ service # None
    /\ service_node \notin registry
    /\ staged_service_node \in registry

\* C4: no registration deferred while disconnected is lost: once the
\* connection is established and the observer has seen every session event,
\* every service that register_service deferred is registered.
C4_DeferredIsRegistered ==
    (Quiescent /\ connected) => deferred \subseteq znodes

C6_ReRegisteredAfterExpiry ==
    (Quiescent /\ connected) => owed \subseteq znodes

C8_AtMostOneException ==
    (/\ proxy_class = "zookeeper"
     /\ ~keepalive
     /\ service # None
     /\ host_services(registry) # {}
     /\ wpc = "idle"
     /\ ~watch_pending) => streak <= 1

\* C9: a caller of a proxied method observes the method's result or
\* ServiceProxyException, never another exception class.
C9_ErrorsNormalized ==
    \A u \in Users :
        pc[u] = "idle" => result[u] \in {"none", "ok", "ServiceProxyException"}

\* C10: with keepalive disabled, whenever no call is inside the method wrapper
\* the bound transport is not open.
C10_TransportClosedBetweenCalls ==
    (~keepalive /\ \A u \in Users : pc[u] \notin WrapperLabels)
        => (service_transport = None \/ ~isOpen(service_transport))

\* C10 witness: keepalive is disabled, a call over an open connection has
\* raised, and a call has returned, with no call in flight afterwards.
C10_Witness ==
    /\ ~keepalive
    /\ \A u \in Users : pc[u] = "idle"
    /\ result["u1"] = "ServiceProxyException"
    /\ result["u2"] = "ok"
    /\ service_transport # None

C12_RingRestoredAfterExpiry ==
    (/\ h_call.op = "hashring"
     /\ h_expired
     /\ h_state = "connected"
     /\ h_before # << >>
     /\ TokensOf(h_ring) = h_before)
        => (h_result.exc = "none" /\ TokensOf(h_result.value) = h_before)

\* C13: whatever joins and leaves happened, hashring() returns exactly the
\* nodes of the current ring, strictly ascending by token.
C13_RingSortedByToken ==
    h_call.op = "hashring"
        => /\ h_result.exc = "none"
           /\ {h_result.value[i].token : i \in 1..Len(h_result.value)}
                  = {h_ring[i].token : i \in 1..Len(h_ring)}
           /\ \A i, j \in 1..Len(h_result.value) :
                  i < j => h_result.value[i].token < h_result.value[j].token

\* C14: on a ring that is not empty, find_hashring_node(key) returns the node
\* with the smallest token strictly greater than the hash of the key, or the
\* node with the lowest token if there is none; a node whose token equals
\* the hash is not the one selected.
C14_FindNodeIsSuccessor ==
    (h_call.op = "find_hashring_node" /\ h_ring # << >>)
        => LET p == key_hash(h_call.data)
               held == {h_ring[i].token : i \in 1..Len(h_ring)}
               above == {t \in held : t > p}
               from == IF above # {} THEN above ELSE held
           IN /\ h_result.exc = "none"
              /\ Len(h_result.value) = 1
              /\ h_result.value[1].token \in from
              /\ \A t \in from : h_result.value[1].token <= t

\* C15: find_hashring_node raises ServiceHashringException to its caller
\* exactly when the ring has no nodes.
C15_EmptyRingRaises ==
    h_call.op = "find_hashring_node"
        => (h_result.exc = "ServiceHashringException" <=> h_ring = << >>)

\* C16: on a ring that is not empty, preference_list(key, merge_nodes)
\* returns nodes of the ring, the first of them the successor of the hash of
\* the key; no two of them have the same service key and, with merge_nodes,
\* no two of them the same hostname.
C16_PreferenceListDistinct ==
    (h_call.op = "preference_list" /\ h_ring # << >>)
        => LET p == key_hash(h_call.data)
               first == h_ring[watch_find_index(h_ring, p)].token
               list == h_result.value
           IN /\ h_result.exc = "none"
              /\ list # << >>
              /\ list[1].token = first
              /\ \A i, j \in 1..Len(list) :
                    i # j =>
                      /\ list[i].data.service_key # list[j].data.service_key
                      /\ h_call.merge_nodes =>
                            list[i].data.hostname # list[j].data.hostname

\* C17: while a node that joined is in the loaded ring, hashring() has one
\* node for every position under the path, and the joined node is the first
\* of preference_list(key) for the keys whose hash lies between the token of
\* its predecessor and its own; when it has left the results are those of
\* the ring without it.
C17_JoinedNodePreferred ==
    (/\ h_state = "connected"
     /\ TokensOf(h_ring) = SortedSeq(h_children)
     /\ h_children \ positions # {})
        => /\ h_call.op = "hashring" =>
                 /\ h_result.exc = "none"
                 /\ Len(h_result.value) = Cardinality(h_children)
           /\ h_call.op = "preference_list" =>
                 \A t \in h_children \ positions :
                     (/\ key_hash(h_call.data) < t
                      /\ \A u \in h_children :
                            u < t => u <= key_hash(h_call.data))
                         => /\ h_result.exc = "none"
                            /\ h_result.value # << >>
                            /\ h_result.value[1].token = t

C20_RegistrationIdempotent ==
    \A s \in Services :
        (sr_connected /\ s \in sr_registered)
            => Len(SelectSeq(find_services, LAMBDA info : info = s)) = 1

\* C21: after unregister_service for the only registered instance,
\* locate_service(name) returns None; after a following register_service of
\* it, locate_service returns the instance again and find_services(name)
\* has length 1.
C21_UnregisterHidesRegisterRestores ==
    \A s \in Services :
        (sr_connected /\ sr_unregistered = s
                      /\ \A c \in sr_children : c.service = s)
            => /\ ~sr_restored =>
                     \A a \in BOOLEAN : sr_locate_service(a) = {None}
               /\ sr_restored =>
                     /\ \A a \in BOOLEAN : sr_locate_service(a) = {s}
                     /\ Len(find_services) = 1

\* C22: unregister_service returns True both when it deletes the node and
\* when the node is already absent; in both cases the node is absent
\* afterwards and the instance is no longer tracked as registered.
C22_UnregisterReturnsTrue ==
    [][/\ (rpc = "idle" /\ rpc' = "unregister_forget" /\ connected)
            => (r_result' = "True" /\ r_service' \notin znodes')
       /\ (rpc = "unregister_forget" /\ rpc' = "idle")
            => r_service \notin registered_services']_vars

\* C23: locate_service returns None exactly when no live registration
\* exists; otherwise it returns one of the live registrations, and with
\* host_affinity a same-host one whenever a same-host registration exists.
C23_LocateNoneIffNoRegistration ==
    lpc = "done" =>
        /\ l_result = None <=> l_seen = {}
        /\ l_result # None => l_result \in l_seen
        /\ (l_affinity /\ \E s \in l_seen : info_hostname(s) = "local")
              => (l_result # None /\ info_hostname(l_result) = "local")

\* C23 as amended: locate_service returns None exactly when it read no
\* registration or reading the registry raised; otherwise it returns one of
\* the registrations it read, a same-host one when host_affinity is set and
\* it read one.
C23_LocateNoneIffNothingRead ==
    lpc = "done" =>
        /\ l_result = None <=> (l_seen = {} \/ l_raised)
        /\ l_result # None =>
              /\ l_result \in l_seen
              /\ (l_affinity /\ \E s \in l_seen : info_hostname(s) = "local")
                    => info_hostname(l_result) = "local"

C23_Witness ==
    /\ lpc = "done"
    /\ l_affinity
    /\ Cardinality(l_seen) > 1
    /\ l_result # None

\* C24: locate_zookeeper_service is equivalent to locate_service except
\* that it pairs the result with the node path: it returns (None, None)
\* exactly when locate_service returns None, and otherwise a
\* (path, ServiceInfo) pair chosen from the same candidates.
C24_LocateZookeeperServiceEquivalent ==
    \A a \in BOOLEAN :
        /\ {p[2] : p \in sr_locate_zookeeper_service(a)} = sr_locate_service(a)
        /\ \A p \in sr_locate_zookeeper_service(a) :
              (p[1] = None) <=> (p[2] = None)

\* C25: from_json(to_json(x)) = x in every field, for every ServiceInfo
\* (with its ServerInfo and ServerEndpoint objects) and every
\* ServiceRegistration.
C25_SerializationRoundTrip ==
    (ser_pc = "done" /\ ~basestring(ser_data))
        => (ser_back.exc = "none" /\ ser_back.value = ser_x)

\* C26: job ownership is exclusive: of the DatabaseJob objects of a row at
\* most one enters successfully, and it sets owner and start; every other
\* __enter__ raises JobOwned and leaves the row unchanged.
C26_JobOwnershipExclusive ==
    /\ \A id \in RowIds :
          Cardinality({d \in JobObjects :
                          /\ job_objects[d].model_id = id
                          /\ job_objects[d].state \in {"block", "exited"}}) <= 1
    /\ \A d \in JobObjects :
          /\ job_objects[d].state = "block" =>
                /\ job_rows[job_objects[d].model_id].owner = job_objects[d].owner
                /\ job_rows[job_objects[d].model_id].start # "NULL"
          /\ job_objects[d].state = "raised" => job_objects[d].exc = "JobOwned"

\* C27: inside the block the job has the owner of the queue and start set,
\* end and successful unset; after a normal exit successful is true and end
\* is set; after an exit by an exception successful is false, end is set
\* and the exception reaches the caller.
C27_JobLifecycle ==
    \A d \in JobObjects :
        LET job == job_objects[d]
            row == job_rows[job.model_id]
        IN /\ job.state = "block" =>
                 /\ job.model.owner = job.owner /\ row.owner = job.owner
                 /\ job.model.start # "NULL" /\ row.start # "NULL"
                 /\ job.model.end = "NULL" /\ row.end = "NULL"
                 /\ job.model.successful = "NULL" /\ row.successful = "NULL"
           /\ job.state = "exited" =>
                 /\ row.end # "NULL"
                 /\ row.owner = job.owner
                 /\ row.successful = IF job.exc = "none" THEN "True" ELSE "False"

C27_Witness ==
    \E d, e \in JobObjects :
        /\ job_objects[d].state = "exited" /\ job_objects[d].exc = "ValueError"
        /\ job_objects[e].state = "exited" /\ job_objects[e].exc = "none"

\* C28: stop() makes every consumer blocked in get() raise QueueStopped,
\* however many are blocked: once the items stop() put are consumed no
\* consumer is left blocked; and a get() called while the queue is not
\* running raises QueueStopped.
C28_StopReleasesEveryConsumer ==
    /\ (q_stop_done /\ q_queue = << >>) => c_blocked = 0
    /\ (q_outcome # "none" /\ ~q_while_running) => q_outcome = "QueueStopped"

\* C29: create with an explicit session_key raises SessionException when
\* the key already exists and leaves the stored session unchanged, and two
\* concurrent creates with the same key never both succeed.
C29_CreateExclusive ==
    /\ [](\A k \in SessionKeys :
            Cardinality({c \in Creators :
                            /\ ss_callers[c].key = k
                            /\ ss_callers[c].outcome = "RiakSession"}) <= 1)
    /\ [][\A c \in Creators :
            /\ (ss_callers[c].pc # "done" /\ ss_callers'[c].pc = "done"
                    /\ ss_bucket[ss_callers'[c].key].exists)
                  => /\ ss_callers'[c].outcome = "SessionException"
                     /\ ss_bucket' = ss_bucket
            /\ ss_callers'[c].outcome = "SessionException"
                  => ss_bucket[ss_callers'[c].key].exists]_vars

C29_Witness ==
    \E c, d \in Creators :
        /\ ss_callers[c].key = ss_callers[d].key
        /\ ss_callers[c].user_id # ss_callers[d].user_id
        /\ ss_callers[c].outcome = "RiakSession"
        /\ ss_callers[d].outcome = "SessionException"
        /\ ~ss_callers[d].exists
        /\ ss_bucket[ss_callers[c].key].user_id = ss_callers[c].user_id

\* C30: the retry queue is drained only by the session observer on a
\* transition to connected: every entry is taken off the queue by the
\* drain and attempted once, an entry whose attempt fails is dropped, not
\* put back, and the queue is empty when the handler returns.
C30_DrainedOnceByObserver ==
    [][/\ Len(registration_queue') < Len(registration_queue)
            => /\ opc = "drain" /\ opc' = "drain_check"
               /\ o_service' = Head(registration_queue)
               /\ registration_queue' = Tail(registration_queue)
       /\ (opc # "drain_check" /\ opc' = "drain_check")
            => (opc = "drain" /\ registration_queue' = Tail(registration_queue))
       /\ (opc # "drain" /\ opc' = "drain")
            => \/ opc = "idle" /\ Head(session_events) = "CONNECTED_STATE"
               \/ /\ opc \in {"drain_check", "drain_create", "drain_record"}
                  /\ registration_queue' = registration_queue
       /\ (opc = "drain" /\ opc' = "idle") => registration_queue' = << >>]_vars

C30_Witness ==
    /\ opc = "drain"
    /\ ~connected
    /\ registration_queue = << >>
    /\ deferred \ znodes # {}

\* C31: the session-expiry handler, running while another thread calls
\* register_service or unregister_service, completes without error and
\* re-queues every service that was registered throughout its execution.
C31_ExpiryHandlerCompletes ==
    [][(opc = "requeue" /\ opc' = "idle")
          => /\ Cardinality(registered_services) = o_size
             /\ o_began \subseteq Range(registration_queue)]_vars

\* C32: for every session state the hashring handles while observers are
\* registered, each observer is passed a ServiceHashringEvent:
\* CONNECTED_EVENT for the connected state, DISCONNECTED_EVENT for the
\* connecting state and for session expiry; and no observer is ever passed
\* anything but a CONNECTED, CHANGED or DISCONNECTED event.
C32_SessionEventsTranslated ==
    \A i \in 1..Len(cb_invoked) :
        /\ cb_invoked[i].event.event_type \in
              {"CONNECTED_EVENT", "CHANGED_EVENT", "DISCONNECTED_EVENT"}
        /\ cb_args.state_name # "none" =>
              cb_invoked[i].event.event_type =
                 IF cb_args.state_name = "CONNECTED_STATE"
                    THEN "CONNECTED_EVENT" ELSE "DISCONNECTED_EVENT"

\* C33: a proxied call that raises ServiceProxyException leaves the bound
\* transport not open, whether or not keepalive is set: in the state right
\* after the wrapper raised, service_transport is None or closed.
C33_ClosedAfterException ==
    [][\A u \in Users :
          (/\ pc[u] \in WrapperLabels
           /\ pc'[u] = "idle"
           /\ result'[u] = "ServiceProxyException")
              => (service_transport' = None
                     \/ tstate'[service_transport'] = "closed")]_vars

\* C34: create without a session key does not try a key twice: when the key
\* exists or the conditional store failed, the next pass of the loop fetches
\* a freshly generated key, different from the one that collided.
C34_RetryUsesFreshKey ==
    [][\A c \in Creators :
          (/\ ss_callers[c].pc = "retry"
           /\ ss_callers'[c].attempts > ss_callers[c].attempts)
              => ss_callers'[c].key # ss_callers[c].key]_vars

\* C35: a ThriftServer whose serve loop failed ERROR_LIMIT times has status
\* DEAD from then on: neither a later stop() nor the exit of the run thread
\* makes status() return anything else.
C35_DeadIsTerminal == ts_dead => ts_status = "DEAD"

\* C36: on a ring that is not empty the preference list is complete and free
\* of duplicates: it holds exactly one node for every service key of the
\* ring, or with merge_nodes for every hostname, and the node kept is the
\* first one of that key (hostname) met walking clockwise from the hash of
\* the key.
C36_PreferenceListComplete ==
    (h_call.op = "preference_list" /\ h_ring # << >>)
        => LET walk == watch_preference_list(h_ring, key_hash(h_call.data))
               group(n) == IF h_call.merge_nodes
                              THEN json_loads(n.data).hostname
                              ELSE json_loads(n.data).service_key
               groups == {group(walk[i]) : i \in 1..Len(walk)}
               first(g) == CHOOSE i \in 1..Len(walk) :
                              /\ group(walk[i]) = g
                              /\ \A j \in 1..(i - 1) : group(walk[j]) # g
               list == h_result.value
           IN /\ h_result.exc = "none"
              /\ Len(list) = Cardinality(groups)
              /\ \A g \in groups :
                    \E i \in 1..Len(list) :
                        list[i].token = walk[first(g)].token

\* C37: unregister_service cancels every pending registration of the
\* service: once unregister_service(s) has returned, no session event handled
\* afterwards creates the node of s, unless register_service(s) was called
\* again.
C37_UnregisterCancelsPending ==
    [][\A s \in cancelled : s \notin znodes => s \notin znodes']_vars

\* C38: after any registry changes, once every pending watch callback of a
\* ZookeeperServiceProxy has run and while an instance is registered on this
\* host, the slot the next call will use (the staged slot if it is not
\* empty, the active slot otherwise) is bound to a node that is among the
\* registry children.
C38_NextSlotIsRegistered ==
    (/\ proxy_class = "zookeeper"
     /\ wpc = "idle"
     /\ ~watch_pending
     /\ \A u \in Users : pc[u] = "idle"
     /\ host_services(registry) # {})
        => (IF staged_service # None THEN staged_service_node
                                     ELSE service_node) \in registry

\* C39: a DatabaseJobQueue has at most one thread executing run() at any
\* time, whatever the order of the start() and stop() calls, also when
\* start() follows stop() before the thread of the start() before has exited.
C39_OnePollingThread ==
    Cardinality({t \in Pollers :
                    q_threads[t] \in {"loop", "poll", "closing"}}) <= 1

====
